---- MODULE Spec2Model ----
(***************************************************************************)
(* Model of the budget-tracker ledger store (app/repositories/csv_repo.py) *)
(* and of the transaction identity (app/core/models.py).                   *)
(*                                                                         *)
(* Text is modelled as a sequence of one-character strings, so that the    *)
(* conversions the store performs (datetime.isoformat / fromisoformat,     *)
(* str(float) / float(str), the concatenation hashed by global_id) are     *)
(* computed character by character.  The CSV header row is always present  *)
(* and is not part of `file`; `file` is the sequence of data rows, each a  *)
(* record of the columns csv.DictReader yields (a column missing from a    *)
(* short row reads as None).  SHA-256 is modelled as injective: the digest *)
(* of a string is the string itself.                                       *)
(***************************************************************************)
EXTENDS Integers, Sequences, FiniteSets, TLC

\* ---------------------------------------------------------------- bounds
MaxRows == 3        \* rows the ledger file may hold
MaxBatch == 2       \* length of the list handed to save_many
MaxInitRows == 1    \* rows of a ledger file that exists before construction
MaxTokenLen == 4    \* characters of a generated amount token
MaxHour == 13       \* largest hour written in a generated message body
MaxStrategies == 4  \* strategies the factory's list may hold
MaxCalls == 2       \* set_category calls made on one mappings file

\* ------------------------------------------------------------------ text
\* the element of a one-element set: The({e(x) : x \in {v}}) is e(v) with v
\* computed once
The(S) == CHOOSE x \in S : TRUE

NoneVal == <<"None">>      \* Python's None; no text has a 4-character element

Digits == <<"0", "1", "2", "3", "4", "5", "6", "7", "8", "9">>

DigitSet == {"0", "1", "2", "3", "4", "5", "6", "7", "8", "9"}

IsDigit(c) == c \in DigitSet

DigitVal(c) == CHOOSE d \in 0..9 : Digits[d + 1] = c

IsDigits(s) == Len(s) > 0 /\ \A i \in 1..Len(s) : IsDigit(s[i])

RECURSIVE NatStr(_)
NatStr(n) == IF n < 10 THEN <<Digits[n + 1]>>
             ELSE NatStr(n \div 10) \o <<Digits[(n % 10) + 1]>>

RECURSIVE StrNat(_)
StrNat(s) == IF Len(s) = 0 THEN 0
             ELSE 10 * StrNat(SubSeq(s, 1, Len(s) - 1)) + DigitVal(s[Len(s)])

\* %02d and %04d
Pad2(n) == <<Digits[(n \div 10) + 1], Digits[(n % 10) + 1]>>

Pad4(n) == <<Digits[(n \div 1000) + 1], Digits[((n \div 100) % 10) + 1],
             Digits[((n \div 10) % 10) + 1], Digits[(n % 10) + 1]>>

\* the number written by the w digits of s that start at position i
Num(s, i, w) == IF w = 2 THEN 10 * DigitVal(s[i]) + DigitVal(s[i + 1])
                ELSE 1000 * DigitVal(s[i]) + 100 * DigitVal(s[i + 1])
                     + 10 * DigitVal(s[i + 2]) + DigitVal(s[i + 3])

AllDigits(s, i, w) == \A k \in i..(i + w - 1) : IsDigit(s[k])

IndexOf(s, c) == IF \E i \in 1..Len(s) : s[i] = c
                 THEN CHOOSE i \in 1..Len(s) : s[i] = c /\ \A j \in 1..(i - 1) : s[j] # c
                 ELSE 0

\* ------------------------------------------------------------- datetime
\* A naive datetime with microsecond 0: <<year, month, day, hour, minute, second>>.
IsLeap(y) == (y % 4 = 0 /\ y % 100 # 0) \/ y % 400 = 0

DaysInMonth(y, m) == IF m = 2 THEN (IF IsLeap(y) THEN 29 ELSE 28)
                     ELSE IF m \in {4, 6, 9, 11} THEN 30 ELSE 31

ValidDateTime(dt) == /\ dt[1] \in 1..9999
                     /\ dt[2] \in 1..12
                     /\ dt[3] \in 1..DaysInMonth(dt[1], dt[2])
                     /\ dt[4] \in 0..23
                     /\ dt[5] \in 0..59
                     /\ dt[6] \in 0..59

isoformat(dt) == Pad4(dt[1]) \o <<"-">> \o Pad2(dt[2]) \o <<"-">> \o Pad2(dt[3])
                 \o <<"T">> \o Pad2(dt[4]) \o <<":">> \o Pad2(dt[5])
                 \o <<":">> \o Pad2(dt[6])

\* datetime.fromisoformat: [ok |-> TRUE, val |-> dt], or ok = FALSE with the
\* exception raised.  The forms read are YYYY-MM-DD and YYYY-MM-DD?HH:MM:SS.
IsoDateOk(s) == /\ AllDigits(s, 1, 4) /\ s[5] = "-"
                /\ AllDigits(s, 6, 2) /\ s[8] = "-"
                /\ AllDigits(s, 9, 2)

IsoTimeOk(s) == /\ AllDigits(s, 12, 2) /\ s[14] = ":"
                /\ AllDigits(s, 15, 2) /\ s[17] = ":"
                /\ AllDigits(s, 18, 2)

IsoFields(s) == <<Num(s, 1, 4), Num(s, 6, 2), Num(s, 9, 2),
                  IF Len(s) = 19 THEN Num(s, 12, 2) ELSE 0,
                  IF Len(s) = 19 THEN Num(s, 15, 2) ELSE 0,
                  IF Len(s) = 19 THEN Num(s, 18, 2) ELSE 0>>

fromisoformat(s) ==
    IF s = NoneVal THEN [ok |-> FALSE, exc |-> "TypeError", val |-> <<>>]
    ELSE IF /\ Len(s) \in {10, 19}
            /\ IsoDateOk(s)
            /\ (Len(s) = 19 => IsoTimeOk(s))
         THEN LET dt == IsoFields(s)
              IN IF ValidDateTime(dt)
                 THEN [ok |-> TRUE, exc |-> "", val |-> dt]
                 ELSE [ok |-> FALSE, exc |-> "ValueError", val |-> <<>>]
         ELSE [ok |-> FALSE, exc |-> "ValueError", val |-> <<>>]

\* ---------------------------------------------------------------- float
\* A non-negative float with at most two decimals is held as its number of
\* hundredths.  FloatStr is str(float): the shortest repr, which keeps at
\* least one fractional digit.
FloatStr(c) == NatStr(c \div 100) \o <<".">> \o
               (IF c % 100 = 0 THEN <<"0">>
                ELSE IF c % 10 = 0 THEN NatStr((c % 100) \div 10)
                ELSE Pad2(c % 100))

\* float(str) for the texts D+ and D+.D{1,2}.
ParseFloat(s) ==
    IF s = NoneVal THEN [ok |-> FALSE, exc |-> "TypeError", val |-> 0]
    ELSE LET dot == IndexOf(s, ".")
             ip == IF dot = 0 THEN s ELSE SubSeq(s, 1, dot - 1)
             fp == IF dot = 0 THEN <<>> ELSE SubSeq(s, dot + 1, Len(s))
         IN IF /\ IsDigits(ip)
               /\ (dot # 0 => IsDigits(fp) /\ Len(fp) <= 2)
            THEN [ok |-> TRUE, exc |-> "",
                  val |-> 100 * StrNat(ip) +
                          (IF Len(fp) = 0 THEN 0
                           ELSE IF Len(fp) = 1 THEN 10 * StrNat(fp)
                           ELSE StrNat(fp))]
            ELSE [ok |-> FALSE, exc |-> "ValueError", val |-> 0]

\* ---------------------------------------------------------- Transaction
Transaction(ts, m, a, cur, inst, pi, n, cat) ==
    [timestamp |-> ts, merchant |-> m, amount |-> a, currency |-> cur,
     institution |-> inst, payment_instrument |-> pi, notes |-> n,
     category |-> cat]

\* global_id as it would be if the notes were hashed too
global_id_withNotes(t) == isoformat(t.timestamp) \o t.merchant
                          \o FloatStr(t.amount) \o t.currency \o t.institution
                          \o t.payment_instrument \o t.notes

\* SHA-256 over the concatenation of the six fields, with no separator.
global_id(t) == isoformat(t.timestamp) \o t.merchant \o FloatStr(t.amount)
                \o t.currency \o t.institution \o t.payment_instrument

SixFields(t) == <<t.timestamp, t.merchant, t.amount, t.currency,
                  t.institution, t.payment_instrument>>

\* --------------------------------------------------------------- CSV rows
_transaction_to_row(txn) ==
    [global_id |-> global_id(txn),
     timestamp |-> isoformat(txn.timestamp),
     merchant |-> txn.merchant,
     amount |-> FloatStr(txn.amount),
     currency |-> txn.currency,
     institution |-> txn.institution,
     payment_instrument |-> txn.payment_instrument,
     notes |-> txn.notes]

\* Returns [kind |-> "txn", txn |-> t], [kind |-> "None"] for a row that is
\* dropped (KeyError / ValueError, which pydantic's ValidationError is), or
\* [kind |-> "TypeError"] when the conversion raises past the except clause.
\* The keyword arguments are evaluated in source order.
_row_to_transaction(row) ==
    LET ts == fromisoformat(row.timestamp)
        am == ParseFloat(row.amount)
        none == [kind |-> "None", txn |-> NoneVal]
        terr == [kind |-> "TypeError", txn |-> NoneVal]
    IN IF ~ts.ok THEN (IF ts.exc = "TypeError" THEN terr ELSE none)
       ELSE IF ~am.ok THEN (IF am.exc = "TypeError" THEN terr ELSE none)
       ELSE IF NoneVal \in {row.merchant, row.currency, row.institution,
                            row.payment_instrument, row.notes}
            THEN none
       ELSE [kind |-> "txn",
             txn |-> Transaction(ts.val, row.merchant, am.val, row.currency,
                                 row.institution, row.payment_instrument,
                                 row.notes, NoneVal)]

\* --------------------------------------------------------- CSVRepository
\* _get_existing_ids as it would be if the first data row were taken for the header
_get_existing_ids_skipFirst(f) == {f[i].global_id : i \in 2..Len(f)}

_get_existing_ids(f) == {f[i].global_id : i \in 1..Len(f)}

exists(f, id) == id \in _get_existing_ids(f)

\* Each operation maps the file to [file, ret, raised, wrote]: the file after
\* the call, the value returned, whether an exception left the call, and
\* whether the file was opened for writing.
\* save as it would be without the duplicate check
save_noCheck(f, t) ==
    [file |-> Append(f, _transaction_to_row(t)), ret |-> TRUE,
     raised |-> FALSE, wrote |-> TRUE]

save(f, t) ==
    IF exists(f, global_id(t))
    THEN [file |-> f, ret |-> FALSE, raised |-> FALSE, wrote |-> FALSE]
    ELSE [file |-> Append(f, _transaction_to_row(t)), ret |-> TRUE,
          raised |-> FALSE, wrote |-> TRUE]

\* the loop of save_many as it would be if the ids written were not remembered
RECURSIVE save_many_loop_noAdd(_, _, _, _, _)
save_many_loop_noAdd(L, i, existing_ids, f, saved) ==
    IF i > Len(L) THEN [file |-> f, count |-> saved]
    ELSE IF global_id(L[i]) \notin existing_ids
         THEN save_many_loop_noAdd(L, i + 1, existing_ids,
                                   Append(f, _transaction_to_row(L[i])),
                                   saved + 1)
         ELSE save_many_loop_noAdd(L, i + 1, existing_ids, f, saved)

RECURSIVE save_many_loop(_, _, _, _, _)
save_many_loop(L, i, existing_ids, f, saved) ==
    IF i > Len(L) THEN [file |-> f, count |-> saved]
    ELSE IF global_id(L[i]) \notin existing_ids
         THEN save_many_loop(L, i + 1, existing_ids \cup {global_id(L[i])},
                             Append(f, _transaction_to_row(L[i])), saved + 1)
         ELSE save_many_loop(L, i + 1, existing_ids, f, saved)

save_many(f, L) == save_many_loop(L, 1, _get_existing_ids(f), f, 0)

RECURSIVE get_all_loop(_, _, _)
get_all_loop(f, i, transactions) ==
    IF i > Len(f) THEN [raised |-> FALSE, txns |-> transactions]
    ELSE LET r == _row_to_transaction(f[i])
         IN IF r.kind = "TypeError" THEN [raised |-> TRUE, txns |-> <<>>]
            ELSE IF r.kind = "txn"
                 THEN get_all_loop(f, i + 1, Append(transactions, r.txn))
                 ELSE get_all_loop(f, i + 1, transactions)

get_all(f) == get_all_loop(f, 1, <<>>)

_write_all(transactions) ==
    [i \in 1..Len(transactions) |-> _transaction_to_row(transactions[i])]

\* delete as it would be without the early return for an unmatched id
delete_alwaysRewrite(f, id) ==
    LET g == get_all(f)
        filtered == SelectSeq(g.txns, LAMBDA txn : global_id(txn) # id)
    IN IF g.raised
       THEN [file |-> f, ret |-> FALSE, raised |-> TRUE, wrote |-> FALSE]
       ELSE [file |-> _write_all(filtered), ret |-> TRUE,
             raised |-> FALSE, wrote |-> TRUE]

delete(f, id) ==
    LET g == get_all(f)
        filtered == SelectSeq(g.txns, LAMBDA txn : global_id(txn) # id)
    IN IF g.raised
       THEN [file |-> f, ret |-> FALSE, raised |-> TRUE, wrote |-> FALSE]
       ELSE IF Len(filtered) = Len(g.txns)
            THEN [file |-> f, ret |-> FALSE, raised |-> FALSE, wrote |-> FALSE]
            ELSE [file |-> _write_all(filtered), ret |-> TRUE,
                  raised |-> FALSE, wrote |-> TRUE]

\* the index update would replace if its loop did not break at the first match
LastMatch(transactions, id) ==
    IF \E i \in 1..Len(transactions) : global_id(transactions[i]) = id
    THEN CHOOSE i \in 1..Len(transactions) :
             /\ global_id(transactions[i]) = id
             /\ \A j \in (i + 1)..Len(transactions) :
                    global_id(transactions[j]) # id
    ELSE 0

FirstMatch(transactions, id) ==
    IF \E i \in 1..Len(transactions) : global_id(transactions[i]) = id
    THEN CHOOSE i \in 1..Len(transactions) :
             /\ global_id(transactions[i]) = id
             /\ \A j \in 1..(i - 1) : global_id(transactions[j]) # id
    ELSE 0

update(f, id, t) ==
    LET g == get_all(f)
        i == FirstMatch(g.txns, id)
    IN IF g.raised
       THEN [file |-> f, ret |-> FALSE, raised |-> TRUE, wrote |-> FALSE]
       ELSE IF i = 0
            THEN [file |-> f, ret |-> FALSE, raised |-> FALSE, wrote |-> FALSE]
            ELSE [file |-> _write_all([g.txns EXCEPT ![i] = t]), ret |-> TRUE,
                  raised |-> FALSE, wrote |-> TRUE]

\* ----------------------------------------------------------------- inputs
TS1 == <<2024, 1, 15, 10, 30, 0>>
TS2 == <<2024, 1, 16, 14, 45, 0>>
Shop == <<"S", "h", "o", "p">>
Shop1 == <<"S", "h", "o", "p", "1">>
Cafe == <<"C", "a", "f", "e">>
USD == <<"U", "S", "D">>
CRC == <<"C", "R", "C">>
BAC == <<"B", "A", "C">>
Card == <<"1", "2", "3", "4">>
Food == <<"F", "o", "o", "d">>
Fun == <<"F", "u", "n">>
NoNotes == <<>>
Note == <<"n">>
UnknownId == <<"n", "o", "-", "i", "d">>

tA == Transaction(TS1, Shop, 1250, USD, BAC, Card, NoNotes, NoneVal)
tA2 == Transaction(TS1, Shop, 1250, USD, BAC, Card, Note, Food)
tB == Transaction(TS2, Cafe, 2500, CRC, BAC, Card, Note, Fun)
tC == Transaction(TS1, Shop1, 250, USD, BAC, Card, NoNotes, NoneVal)
tD == Transaction(TS2, Shop, 1, USD, BAC, Card, NoNotes, Food)

\* The transactions handed to the store.
Txns == {tA, tA2, tB}

\* Rows of a ledger file found at construction that the store did not write:
\* a row whose amount is not a number, a row cut short after the merchant
\* (the columns after it read as None), and a row whose global_id column is
\* not the identity of its fields.
BadAmountRow == [_transaction_to_row(tB) EXCEPT !.amount = <<"a", "b", "c">>]
ShortRow == [_transaction_to_row(tA2) EXCEPT
                 !.amount = NoneVal, !.currency = NoneVal,
                 !.institution = NoneVal, !.payment_instrument = NoneVal,
                 !.notes = NoneVal]
StaleIdRow == [_transaction_to_row(tB) EXCEPT !.global_id = UnknownId]

ExternalRows == {BadAmountRow, ShortRow, StaleIdRow}

\* The transactions whose identity is computed: every combination of two
\* values per field.
Davibank == <<"D", "a", "v", "i", "b", "a", "n", "k">>
Card2 == <<"5", "6", "7", "8">>

IdTxns == {Transaction(ts, m, a, cur, inst, pi, n, cat) :
              ts \in {TS1, TS2}, m \in {Shop, Shop1}, a \in {1250, 250},
              cur \in {USD, CRC}, inst \in {BAC, Davibank},
              pi \in {Card, Card2}, n \in {NoNotes, Note},
              cat \in {NoneVal, Food}}

RECURSIVE SeqsUpTo(_, _)
SeqsUpTo(X, n) == IF n = 0 THEN {<<>>}
                  ELSE LET shorter == SeqsUpTo(X, n - 1)
                       IN shorter \cup {Append(q, x) : q \in shorter, x \in X}

Ids == {global_id(t) : t \in Txns} \cup {r.global_id : r \in ExternalRows}
       \cup {UnknownId}

Batches == SeqsUpTo(Txns, MaxBatch)

\* ------------------------------------------------------------------ state
VARIABLES file, last

vars == <<file, last>>

\* `last` records the most recent call: its name and arguments, the file it
\* found, and what it returned.
Call(op, id, txns, before, r, count, out) ==
    [op |-> op, id |-> id, txns |-> txns, before |-> before,
     ret |-> r.ret, raised |-> r.raised, wrote |-> r.wrote,
     count |-> count, out |-> out]

NoResult == [ret |-> FALSE, raised |-> FALSE, wrote |-> FALSE]

NoCall == Call("init", NoneVal, <<>>, <<>>, NoResult, 0, <<>>)

\* CSVRepository.__init__ on a path with no file: header only.
Init == file = <<>> /\ last = NoCall

\* CSVRepository.__init__ on a path where a ledger file already exists.
InitFile == file \in SeqsUpTo(ExternalRows, MaxInitRows) /\ last = NoCall

Save == \E t \in Txns :
    LET r == save(file, t)
    IN /\ Len(r.file) <= MaxRows
       /\ file' = r.file
       /\ last' = Call("save", global_id(t), <<t>>, file, r, 0, <<>>)

SaveMany == \E L \in Batches :
    LET r == save_many(file, L)
    IN /\ Len(r.file) <= MaxRows
       /\ file' = r.file
       /\ last' = Call("save_many", NoneVal, L, file,
                       [ret |-> FALSE, raised |-> FALSE, wrote |-> TRUE],
                       r.count, <<>>)

Delete == \E id \in Ids : \E r \in {delete(file, id)} :
       /\ file' = r.file
       /\ last' = Call("delete", id, <<>>, file, r, 0, <<>>)

Update == \E id \in Ids, t \in Txns : \E r \in {update(file, id, t)} :
       /\ file' = r.file
       /\ last' = Call("update", id, <<t>>, file, r, 0, <<>>)

Exists == \E id \in Ids :
    /\ file' = file
    /\ last' = Call("exists", id, <<>>, file,
                    [ret |-> exists(file, id), raised |-> FALSE,
                     wrote |-> FALSE], 0, <<>>)

GetAll ==
    LET g == get_all(file)
    IN /\ file' = file
       /\ last' = Call("get_all", NoneVal, <<>>, file,
                       [ret |-> FALSE, raised |-> g.raised, wrote |-> FALSE],
                       0, g.txns)

Next == Save \/ SaveMany \/ Delete \/ Update \/ Exists \/ GetAll

Spec == Init /\ [][Next]_vars

SpecFile == InitFile /\ [][Next]_vars

\* Two transactions are constructed, then the identity of each is computed.
InitId == /\ file = <<>>
          /\ \E a \in IdTxns, b \in IdTxns :
                 last = Call("Transaction", NoneVal, <<a, b>>, <<>>, NoResult,
                             0, <<>>)

ComputeId == /\ last.op = "Transaction"
             /\ last' = [last EXCEPT !.op = "global_id",
                                     !.out = <<global_id(last.txns[1]),
                                               global_id(last.txns[2])>>]
             /\ UNCHANGED file

SpecId == InitId /\ [][ComputeId]_vars

\* ---------------------------------------------------------------- summary
\* the transactions whose institution is inst, whose currency is cur
CountWhere(transactions, field, value) ==
    Cardinality({i \in 1..Len(transactions) : transactions[i][field] = value})

\* the sum of txn.amount over the transactions of the currency, in hundredths
RECURSIVE AmountSum(_, _, _)
AmountSum(transactions, i, currency) ==
    IF i > Len(transactions) THEN 0
    ELSE (IF transactions[i].currency = currency THEN transactions[i].amount ELSE 0)
         + AmountSum(transactions, i + 1, currency)

\* get_summary: the dicts are functions on their keys.  An amount is held in
\* hundredths, so `amt / 100` is held in ten-thousandths: its number of
\* ten-thousandths is amt's number of hundredths.
get_summary(f) ==
    The({IF g.raised THEN [raised |-> TRUE, summary |-> NoneVal]
         ELSE [raised |-> FALSE,
               summary |->
                   [total_transactions |-> Len(g.txns),
                    by_institution |->
                        [inst \in {g.txns[i].institution : i \in 1..Len(g.txns)} |->
                            CountWhere(g.txns, "institution", inst)],
                    by_currency |->
                        [cur \in {g.txns[i].currency : i \in 1..Len(g.txns)} |->
                            CountWhere(g.txns, "currency", cur)],
                    total_amount_by_currency |->
                        [cur \in {g.txns[i].currency : i \in 1..Len(g.txns)} |->
                            [ten_thousandths |-> AmountSum(g.txns, 1, cur)]]]] :
            g \in {get_all(f)}})

\* the transactions in the ledger that is summarised
tE == Transaction(TS2, Cafe, 999, USD, Davibank, Card2, NoNotes, NoneVal)
SummaryTxns == {tA, tB, tD, tE}

SaveAny == \E t \in SummaryTxns : \E r \in {save(file, t)} :
    /\ Len(r.file) <= MaxRows
    /\ file' = r.file
    /\ last' = Call("save", global_id(t), <<t>>, file, r, 0, <<>>)

GetSummary == \E s \in {get_summary(file)} :
    /\ file' = file
    /\ last' = Call("get_summary", NoneVal, <<>>, file,
                    [ret |-> FALSE, raised |-> s.raised, wrote |-> FALSE],
                    0, s.summary)

NextSummary == SaveAny \/ GetSummary

SpecSummary == Init /\ [][NextSummary]_vars

\* ------------------------------------------------- two concurrent requests
\* One request runs save(b) while another runs delete(a) or update(a, a') on
\* the same ledger file.  Nothing serialises them, so the file accesses of
\* the two calls interleave freely; a step is one access to the file, from
\* open to close.  `last` holds both calls: their arguments, the position
\* of each (the access it makes next), the list the writer read, what each
\* returned, and the accesses made so far in order.
RaceTxns == Txns \cup {tD}

\* the ledgers of at most two transactions that saves leave behind
RaceLedgers ==
    {f \in {<<>>} \cup {<<_transaction_to_row(x)>> : x \in RaceTxns}
                  \cup {<<_transaction_to_row(x), _transaction_to_row(y)>> :
                           x \in RaceTxns, y \in RaceTxns} :
        \A i \in 1..Len(f), j \in 1..Len(f) :
            f[i].global_id = f[j].global_id => i = j}

\* open(ledger_path, "w") as it would be if it kept the content of the file
open_w_noTruncate(f) == f

\* open(ledger_path, "w"): the content of the file is discarded
open_w(f) == <<>>

InitRace ==
    /\ file \in RaceLedgers
    /\ \E b \in RaceTxns, a \in {global_id(t) : t \in RaceTxns},
          transaction \in {<<>>} \cup {<<t>> : t \in RaceTxns} :
           last = [op |-> "race", b |-> b, id |-> a, txns |-> transaction,
                   save |-> "exists", save_ret |-> FALSE,
                   writer |-> "get_all", writer_ret |-> FALSE,
                   transactions |-> <<>>, steps |-> <<>>]

\* save, line 64: the duplicate check reads the file
SaveExists ==
    /\ last.op = "race" /\ last.save = "exists"
    /\ last' = [last EXCEPT
                   !.save = IF exists(file, global_id(last.b))
                            THEN "done" ELSE "append",
                   !.steps = Append(@, "exists")]
    /\ UNCHANGED file

\* save, lines 67-71: the row is appended and save returns True
SaveAppend ==
    /\ last.op = "race" /\ last.save = "append"
    /\ file' = Append(file, _transaction_to_row(last.b))
    /\ last' = [last EXCEPT !.save = "done", !.save_ret = TRUE,
                            !.steps = Append(@, "append")]

\* delete, lines 118-123: get_all, the filter and the early return
DeleteGetAll ==
    /\ last.op = "race" /\ last.writer = "get_all" /\ last.txns = <<>>
    /\ \E g \in {get_all(file)} :
       \E filtered \in {SelectSeq(g.txns,
                                  LAMBDA txn : global_id(txn) # last.id)} :
           last' = [last EXCEPT
                       !.writer = IF g.raised \/ Len(filtered) = Len(g.txns)
                                  THEN "done" ELSE "_write_all",
                       !.transactions = filtered,
                       !.steps = Append(@, "get_all")]
    /\ UNCHANGED file

\* update, lines 138-147: get_all, the replacement and the early return
UpdateGetAll ==
    /\ last.op = "race" /\ last.writer = "get_all" /\ last.txns # <<>>
    /\ \E g \in {get_all(file)} : \E i \in {FirstMatch(g.txns, last.id)} :
           last' = [last EXCEPT
                       !.writer = IF g.raised \/ i = 0
                                  THEN "done" ELSE "_write_all",
                       !.transactions =
                           IF g.raised \/ i = 0 THEN g.txns
                           ELSE [g.txns EXCEPT ![i] = last.txns[1]],
                       !.steps = Append(@, "get_all")]
    /\ UNCHANGED file

\* delete line 125, update line 149: _write_all rewrites the file from the
\* list read earlier, and the call returns True
WriteAll ==
    /\ last.op = "race" /\ last.writer = "_write_all"
    /\ file' = open_w(file) \o _write_all(last.transactions)
    /\ last' = [last EXCEPT !.writer = "done", !.writer_ret = TRUE,
                            !.steps = Append(@, "_write_all")]

NextRace == SaveExists \/ SaveAppend \/ DeleteGetAll \/ UpdateGetAll \/ WriteAll

SpecRace == InitRace /\ [][NextRace]_vars

\* =============================================================== parsers
\* ------------------------------------------------------- letters and case
UpperChars == <<"A", "B", "C", "D", "E", "F", "G", "H", "I", "J", "K", "L", "M", "N", "O", "P", "Q", "R", "S", "T", "U", "V", "W", "X", "Y", "Z", "Á", "É", "Í", "Ó", "Ú">>
LowerChars == <<"a", "b", "c", "d", "e", "f", "g", "h", "i", "j", "k", "l", "m", "n", "o", "p", "q", "r", "s", "t", "u", "v", "w", "x", "y", "z", "á", "é", "í", "ó", "ú">>

UpperSet == {UpperChars[k] : k \in 1..Len(UpperChars)}
LowerSet == {LowerChars[k] : k \in 1..Len(LowerChars)}

LowerMap == [c \in UpperSet |->
                LowerChars[CHOOSE k \in 1..Len(UpperChars) : UpperChars[k] = c]]
UpperMap == [c \in LowerSet |->
                UpperChars[CHOOSE k \in 1..Len(LowerChars) : LowerChars[k] = c]]

\* str.lower() and str.upper(), one character and whole text
LowerChar(c) == IF c \in UpperSet THEN LowerMap[c] ELSE c
UpperChar(c) == IF c \in LowerSet THEN UpperMap[c] ELSE c
Lower(s) == [i \in 1..Len(s) |-> LowerChar(s[i])]
Upper(s) == [i \in 1..Len(s) |-> UpperChar(s[i])]

\* the character classes of the patterns
AsciiLetters == {UpperChars[k] : k \in 1..26} \cup {LowerChars[k] : k \in 1..26}
Space == {" ", "\t", "\n", "\r"}

\* str.strip()
RECURSIVE LStrip(_)
LStrip(s) == IF Len(s) > 0 /\ s[1] \in Space THEN LStrip(Tail(s)) ELSE s
RECURSIVE RStrip(_)
RStrip(s) == IF Len(s) > 0 /\ s[Len(s)] \in Space
             THEN RStrip(SubSeq(s, 1, Len(s) - 1)) ELSE s
Strip(s) == LStrip(RStrip(s))

\* `sub in s`
Contains(s, sub) ==
    \E i \in 1..(Len(s) - Len(sub) + 1) : SubSeq(s, i, i + Len(sub) - 1) = sub

\* ------------------------------------------------------------------- re
\* A pattern is a tree of nodes.  Matching a node at position i of s, with
\* the groups captured so far, yields the sequence of <<end, groups>> the
\* backtracking matcher would try, in its order of preference; re.search
\* takes the first outcome at the leftmost position that has one.
Chr(set) == [t |-> "chr", set |-> set]
ChrI(set) == [t |-> "chr", set |-> set \cup {LowerChar(c) : c \in set}
                                      \cup {UpperChar(c) : c \in set}]
AnyChr == [t |-> "any"]
Eol == [t |-> "eol"]
Cat(parts) == [t |-> "cat", parts |-> parts]
Alt(parts) == [t |-> "alt", parts |-> parts]
\* r{min,max}; r{min,} has no upper limit
Rep(r, min, max) ==
    [t |-> "rep", r |-> r, min |-> min, max |-> max, inf |-> FALSE, greedy |-> TRUE]
RepFrom(r, min) ==
    [t |-> "rep", r |-> r, min |-> min, max |-> min, inf |-> TRUE, greedy |-> TRUE]
Lazy(rep) == [rep EXCEPT !.greedy = FALSE]
Grp(k, r) == [t |-> "grp", k |-> k, r |-> r]
Opt(r) == Rep(r, 0, 1)
Star(r) == RepFrom(r, 0)
Plus(r) == RepFrom(r, 1)
\* a literal text, and the same under re.IGNORECASE
Lit(s) == Cat([i \in 1..Len(s) |-> Chr({s[i]})])
LitI(s) == Cat([i \in 1..Len(s) |-> ChrI({s[i]})])

\* does the one-character node take c
TakesChar(node, c) == IF node.t = "chr" THEN c \in node.set ELSE c # "\n"


\* A repetition of a one-character node from position i: the characters it
\* can take in a row, and its outcomes from the longest down (or, when lazy,
\* from the shortest up).
RunLength(node, s, i) ==
    The({The({IF node.inf \/ run <= node.max THEN run ELSE node.max :
                 run \in {(CHOOSE j \in stops : \A k \in stops : j <= k) - i}}) :
             stops \in {{j \in i..Len(s) : ~TakesChar(node.r, s[j])} \cup {Len(s) + 1}}})

MatchRun(node, s, i, groups) ==
    The({IF n < node.min THEN <<>>
         ELSE [k \in 1..(n - node.min + 1) |->
                  <<(IF node.greedy THEN i + n - k + 1 ELSE i + node.min + k - 1),
                    groups>>] :
             n \in {RunLength(node, s, i)}})

RECURSIVE Match(_, _, _, _)
RECURSIVE MatchCat(_, _, _, _, _)
RECURSIVE MatchCatEach(_, _, _, _, _)
RECURSIVE MatchAlt(_, _, _, _, _)
RECURSIVE MatchRep(_, _, _, _, _)
RECURSIVE MatchRepEach(_, _, _, _, _, _)

Match(node, s, i, groups) ==
    CASE node.t = "chr" ->
            IF i <= Len(s) /\ s[i] \in node.set
            THEN << <<i + 1, groups>> >> ELSE <<>>
      [] node.t = "any" ->
            IF i <= Len(s) /\ s[i] # "\n"
            THEN << <<i + 1, groups>> >> ELSE <<>>
      [] node.t = "eol" ->
            IF i = Len(s) + 1 \/ (i = Len(s) /\ s[i] = "\n")
            THEN << <<i, groups>> >> ELSE <<>>
      [] node.t = "cat" -> MatchCat(node.parts, 1, s, i, groups)
      [] node.t = "alt" -> MatchAlt(node.parts, 1, s, i, groups)
      [] node.t = "rep" ->
            IF node.r.t \in {"chr", "any"} THEN MatchRun(node, s, i, groups)
            ELSE MatchRep(node, 0, s, i, groups)
      [] node.t = "grp" ->
            The({[n \in 1..Len(rs) |->
                     <<rs[n][1],
                       [rs[n][2] EXCEPT ![node.k] = SubSeq(s, i, rs[n][1] - 1)]>>] :
                    rs \in {Match(node.r, s, i, groups)}})

MatchCat(parts, k, s, i, groups) ==
    IF k > Len(parts) THEN << <<i, groups>> >>
    ELSE The({MatchCatEach(parts, k, s, rs, 1) : rs \in {Match(parts[k], s, i, groups)}})

MatchCatEach(parts, k, s, rs, n) ==
    IF n > Len(rs) THEN <<>>
    ELSE MatchCat(parts, k + 1, s, rs[n][1], rs[n][2])
         \o MatchCatEach(parts, k, s, rs, n + 1)

MatchAlt(parts, k, s, i, groups) ==
    IF k > Len(parts) THEN <<>>
    ELSE Match(parts[k], s, i, groups) \o MatchAlt(parts, k + 1, s, i, groups)

MatchRep(node, count, s, i, groups) ==
    LET stop == IF count >= node.min THEN << <<i, groups>> >> ELSE <<>>
        more == IF node.inf \/ count < node.max
                THEN The({MatchRepEach(node, count, s, i, rs, 1) :
                             rs \in {Match(node.r, s, i, groups)}})
                ELSE <<>>
    IN IF node.greedy THEN more \o stop ELSE stop \o more

MatchRepEach(node, count, s, i, rs, n) ==
    IF n > Len(rs) THEN <<>>
    ELSE (IF rs[n][1] > i
          THEN MatchRep(node, count + 1, s, rs[n][1], rs[n][2]) ELSE <<>>)
         \o MatchRepEach(node, count, s, i, rs, n + 1)

NoGroups(n) == [k \in 1..n |-> NoneVal]

NoMatch == [found |-> FALSE, groups |-> <<>>, end |-> 0]

\* re.match: at the start of s only; end is the position after the match
ReMatch(re, s, n) ==
    The({IF rs = <<>> THEN NoMatch
         ELSE [found |-> TRUE, groups |-> rs[1][2], end |-> rs[1][1]] :
             rs \in {The({Match(node, str, 1, NoGroups(n)) : node \in {re}, str \in {s}})}})

\* re.search: the leftmost position of s with a match
ReSearch(re, s, n) ==
    The({The({IF starts = {} THEN NoMatch
              ELSE The({[found |-> TRUE, groups |-> rs[1][2], end |-> rs[1][1]] :
                           rs \in {Match(node, str,
                                         CHOOSE k \in starts : \A j \in starts : k <= j,
                                         NoGroups(n))}}) :
                 starts \in {{i \in 1..(Len(str) + 1) :
                                 Match(node, str, i, NoGroups(n)) # <<>>}}}) :
            node \in {re}, str \in {s}})

\* str.split(sep) and re.split(r"[...]", s): the pieces between separators
RECURSIVE Split(_, _)
Split(s, seps) ==
    IF \A i \in 1..Len(s) : s[i] \notin seps THEN <<s>>
    ELSE LET i == CHOOSE k \in 1..Len(s) :
                      s[k] \in seps /\ \A j \in 1..(k - 1) : s[j] \notin seps
         IN <<SubSeq(s, 1, i - 1)>> \o Split(SubSeq(s, i + 1, Len(s)), seps)

\* the pieces of the patterns
D == Chr(DigitSet)
Ws == Star(Chr(Space))
Ws1 == Plus(Chr(Space))

\* --------------------------------------------------------- amount parsers
\* re.sub(r"[^\d.,]", "", amount_str)
KeepNumeric(s) == SelectSeq(s, LAMBDA c : c \in DigitSet \cup {".", ","})

\* str.replace(c, "") and str.replace(c, d)
Remove(s, c) == SelectSeq(s, LAMBDA x : x # c)
Replace(s, c, d) == [i \in 1..Len(s) |-> IF s[i] = c THEN d ELSE s[i]]

HasChar(s, c) == \E i \in 1..Len(s) : s[i] = c

\* str.rfind(c), counted from 1; 0 when c does not occur
RFind(s, c) == IF HasChar(s, c)
               THEN CHOOSE i \in 1..Len(s) : s[i] = c /\ \A j \in (i + 1)..Len(s) : s[j] # c
               ELSE 0

\* The text float() reads: digits with at most one '.', at least one digit.
FloatSyntaxOk(s) ==
    /\ \A i \in 1..Len(s) : s[i] \in DigitSet \cup {"."}
    /\ \A i, j \in 1..Len(s) : (s[i] = "." /\ s[j] = ".") => i = j
    /\ \E i \in 1..Len(s) : s[i] \in DigitSet

\* the digits before and after the '.'
IntDigits(s) == IF HasChar(s, ".") THEN SubSeq(s, 1, RFind(s, ".") - 1) ELSE s
FracDigits(s) == IF HasChar(s, ".") THEN SubSeq(s, RFind(s, ".") + 1, Len(s)) ELSE <<>>

\* the value in hundredths, cut after the second fractional digit
Hundredths(s) ==
    LET f == FracDigits(s)
    IN 100 * StrNat(IntDigits(s))
       + (IF Len(f) >= 1 THEN 10 * DigitVal(f[1]) ELSE 0)
       + (IF Len(f) >= 2 THEN DigitVal(f[2]) ELSE 0)

\* what follows the second fractional digit, against half a hundredth
BeyondHundredths(s) ==
    LET f == FracDigits(s)
    IN IF Len(f) < 3 \/ DigitVal(f[3]) < 5 THEN "below"
       ELSE IF DigitVal(f[3]) > 5 \/ \E k \in 4..Len(f) : f[k] # "0" THEN "above"
       ELSE "half"

\* A double keeps MantissaBits significant bits.  The value h + 1/2 hundredths
\* is (2h+1)/25 times a power of two, so the double nearest to it lies above
\* or below it according to the binary digits of (2h+1)/25 that do not fit.
MantissaBits == 53

RECURSIVE BitLen(_)
BitLen(n) == IF n = 0 THEN 0 ELSE 1 + BitLen(n \div 2)

\* the remainder of r/25 after k more binary digits
RECURSIVE RemAfter(_, _)
RemAfter(r, k) == IF k = 0 THEN r ELSE RemAfter((2 * r) % 25, k - 1)

\* the remainder of r/25 (0 < r < 25) once its first 1 digit is out
RECURSIVE RemLeading(_)
RemLeading(r) == IF 2 * r >= 25 THEN (2 * r) % 25 ELSE RemLeading(2 * r)

\* float() of the text for h + 1/2 hundredths: "exact", "above" or "below" it
FloatOfHalf(h) ==
    LET n == 2 * h + 1
        q == n \div 25
        r == n % 25
        rest == IF q > 0 THEN RemAfter(r, MantissaBits - BitLen(q))
                ELSE RemAfter(RemLeading(r), MantissaBits - 1)
    IN IF r = 0 THEN "exact" ELSE IF 2 * rest > 25 THEN "above" ELSE "below"

\* round(float(numeric), 2), in hundredths: round() gives the two-decimal
\* value nearest to the double, and the even one when the double is midway
RoundFloat2(numeric) ==
    IF ~FloatSyntaxOk(numeric) THEN [ok |-> FALSE, val |-> 0]
    ELSE LET h == Hundredths(numeric)
             b == BeyondHundredths(numeric)
             f == FloatOfHalf(h)
             up == \/ b = "above"
                   \/ b = "half" /\ f = "above"
                   \/ b = "half" /\ f = "exact" /\ h % 2 = 1
         IN [ok |-> TRUE, val |-> IF up THEN h + 1 ELSE h]

\* BACParserStrategy._parse_amount_string: <<hundredths, currency>>
_parse_amount_string_twoIsThree(amount_str) ==
    LET currency == IF \/ Contains(amount_str, <<"C", "R", "C">>)
                       \/ Contains(amount_str, <<"₡">>)
                       \/ Contains(Lower(amount_str), <<"c", "o", "l", "o", "n", "e", "s">>)
                    THEN <<"C", "R", "C">> ELSE <<"U", "S", "D">>
        stripped == KeepNumeric(amount_str)
        numeric ==
            IF HasChar(stripped, ",") /\ HasChar(stripped, ".")
            THEN IF RFind(stripped, ",") > RFind(stripped, ".")
                 THEN Replace(Remove(stripped, "."), ",", ".")
                 ELSE Remove(stripped, ",")
            ELSE IF HasChar(stripped, ",")
            THEN IF Len(stripped) - RFind(stripped, ",") = 3
                 THEN Replace(stripped, ",", ".")
                 ELSE Remove(stripped, ",")
            ELSE stripped
        f == RoundFloat2(numeric)
    IN IF f.ok THEN <<f.val, currency>> ELSE <<0, currency>>

_parse_amount_string(amount_str) ==
    LET currency == IF \/ Contains(amount_str, <<"C", "R", "C">>)
                       \/ Contains(amount_str, <<"₡">>)
                       \/ Contains(Lower(amount_str), <<"c", "o", "l", "o", "n", "e", "s">>)
                    THEN <<"C", "R", "C">> ELSE <<"U", "S", "D">>
        stripped == KeepNumeric(amount_str)
        numeric ==
            IF HasChar(stripped, ",") /\ HasChar(stripped, ".")
            THEN IF RFind(stripped, ",") > RFind(stripped, ".")
                 THEN Replace(Remove(stripped, "."), ",", ".")
                 ELSE Remove(stripped, ",")
            ELSE IF HasChar(stripped, ",")
            THEN IF Len(stripped) - RFind(stripped, ",") = 2
                 THEN Replace(stripped, ",", ".")
                 ELSE Remove(stripped, ",")
            ELSE stripped
        f == RoundFloat2(numeric)
    IN IF f.ok THEN <<f.val, currency>> ELSE <<0, currency>>

\* DavibankParserStrategy._parse_amount: hundredths
_parse_amount(amount_str) ==
    LET stripped == KeepNumeric(amount_str)
        numeric ==
            IF HasChar(stripped, ",") /\ HasChar(stripped, ".")
            THEN IF RFind(stripped, ",") > RFind(stripped, ".")
                 THEN Replace(Remove(stripped, "."), ",", ".")
                 ELSE Remove(stripped, ",")
            ELSE IF HasChar(stripped, ",")
            THEN IF Len(stripped) - RFind(stripped, ",") = 2
                 THEN Replace(stripped, ",", ".")
                 ELSE Remove(stripped, ",")
            ELSE stripped
        f == RoundFloat2(numeric)
    IN IF f.ok THEN f.val ELSE 0

\* ---------------------------------------------------- timestamp extractors
\* datetime(year, month, day, hour, minute): the value, or ValueError
MakeDateTime(y, mo, d, h, mi, sec) ==
    LET dt == <<y, mo, d, h, mi, sec>>
    IN IF ValidDateTime(dt) THEN [ok |-> TRUE, val |-> dt]
       ELSE [ok |-> FALSE, val |-> <<>>]

\* datetime.combine(email.date, datetime.min.time())
Midnight(date) == <<date[1], date[2], date[3], 0, 0, 0>>

\* Fecha:\s*\n?\s*([A-Za-z]{3,4}\s+\d{1,2},\s*\d{4},?\s*\d{1,2}:\d{2})
BacSpanishRe ==
    Cat(<<LitI(<<"F", "e", "c", "h", "a", ":">>), Ws, Opt(Chr({"\n"})), Ws,
          Grp(1, Cat(<<Rep(Chr(AsciiLetters), 3, 4), Ws1, Rep(D, 1, 2), Chr({","}),
                       Ws, Rep(D, 4, 4), Opt(Chr({","})), Ws,
                       Rep(D, 1, 2), Chr({":"}), Rep(D, 2, 2)>>))>>)

\* Fecha:\s*\n?\s*(\d{1,2}[/-]\d{1,2}[/-]\d{2,4})\s*,?\s*(\d{1,2}:\d{2})?
BacNumericRe ==
    Cat(<<LitI(<<"F", "e", "c", "h", "a", ":">>), Ws, Opt(Chr({"\n"})), Ws,
          Grp(1, Cat(<<Rep(D, 1, 2), Chr({"/", "-"}), Rep(D, 1, 2), Chr({"/", "-"}),
                       Rep(D, 2, 4)>>)),
          Ws, Opt(Chr({","})), Ws,
          Opt(Grp(2, Cat(<<Rep(D, 1, 2), Chr({":"}), Rep(D, 2, 2)>>)))>>)

\* ([A-Za-z]{3,4})\s+(\d{1,2}),?\s*(\d{4}),?\s*(\d{1,2}):(\d{2})
BacSpanishPartsRe ==
    Cat(<<Grp(1, Rep(Chr(AsciiLetters), 3, 4)), Ws1, Grp(2, Rep(D, 1, 2)),
          Opt(Chr({","})), Ws, Grp(3, Rep(D, 4, 4)), Opt(Chr({","})), Ws,
          Grp(4, Rep(D, 1, 2)), Chr({":"}), Grp(5, Rep(D, 2, 2))>>)

months == <<<<"e", "n", "e">>, <<"f", "e", "b">>, <<"m", "a", "r">>, <<"a", "b", "r">>, <<"m", "a", "y">>, <<"j", "u", "n">>, <<"j", "u", "l">>, <<"a", "g", "o">>, <<"s", "e", "p">>, <<"o", "c", "t">>, <<"n", "o", "v">>, <<"d", "i", "c">>>>

\* months.get(month_str, 1)
MonthOf(month_str) ==
    IF \E k \in 1..12 : months[k] = month_str
    THEN CHOOSE k \in 1..12 : months[k] = month_str ELSE 1

\* BACParserStrategy._parse_spanish_date; now is what datetime.now() returns
_parse_spanish_date(date_str, now) ==
    LET m == ReMatch(BacSpanishPartsRe, Strip(date_str), 5)
    IN IF ~m.found THEN now
       ELSE LET month_str == SubSeq(Lower(m.groups[1]), 1, 3)
                dt == MakeDateTime(StrNat(m.groups[3]), MonthOf(month_str),
                                   StrNat(m.groups[2]), StrNat(m.groups[4]),
                                   StrNat(m.groups[5]), 0)
            IN IF dt.ok THEN dt.val ELSE now

\* BACParserStrategy._parse_numeric_date
_parse_numeric_date(date_str, time_str, now) ==
    LET parts == Split(date_str, {"/", "-"})
    IN IF Len(parts) # 3 THEN now
       ELSE IF \E k \in 1..3 : ~IsDigits(parts[k]) THEN now
       ELSE LET year == StrNat(parts[3])
                time_parts == Split(time_str, {":"})
                timed == Len(time_str) > 0
            IN IF timed /\ \E k \in 1..Len(time_parts) : k <= 2 /\ ~IsDigits(time_parts[k])
               THEN now
               ELSE LET dt == MakeDateTime(
                              IF year < 100 THEN year + 2000 ELSE year,
                              StrNat(parts[2]), StrNat(parts[1]),
                              IF timed THEN StrNat(time_parts[1]) ELSE 0,
                              IF timed /\ Len(time_parts) > 1
                              THEN StrNat(time_parts[2]) ELSE 0,
                              0)
                    IN IF dt.ok THEN dt.val ELSE now

BacExtractTimestamp_nowFallback(text, date, now) ==
    LET m1 == ReSearch(BacSpanishRe, text, 1)
        m2 == ReSearch(BacNumericRe, text, 2)
    IN IF m1.found THEN _parse_spanish_date(m1.groups[1], now)
       ELSE IF m2.found
       THEN _parse_numeric_date(m2.groups[1],
                                IF m2.groups[2] # NoneVal THEN m2.groups[2]
                                ELSE <<"0", "0", ":", "0", "0">>,
                                now)
       ELSE now

\* BACParserStrategy._extract_timestamp; date is email.date
BacExtractTimestamp(text, date, now) ==
    LET m1 == ReSearch(BacSpanishRe, text, 1)
        m2 == ReSearch(BacNumericRe, text, 2)
    IN IF m1.found THEN _parse_spanish_date(m1.groups[1], now)
       ELSE IF m2.found
       THEN _parse_numeric_date(m2.groups[1],
                                IF m2.groups[2] # NoneVal THEN m2.groups[2]
                                ELSE <<"0", "0", ":", "0", "0">>,
                                now)
       ELSE Midnight(date)

\* el\s+d[íi]a\s+(\d{1,2}/\d{1,2}/\d{4})\s+a\s+las?\s+(\d{1,2}:\d{2})\s*(AM|PM)?
DavibankDiaRe ==
    Cat(<<LitI(<<"e", "l">>), Ws1, ChrI({"d"}), ChrI({"í", "i"}), ChrI({"a"}), Ws1,
          Grp(1, Cat(<<Rep(D, 1, 2), Chr({"/"}), Rep(D, 1, 2), Chr({"/"}), Rep(D, 4, 4)>>)),
          Ws1, ChrI({"a"}), Ws1, LitI(<<"l", "a">>), Opt(ChrI({"s"})), Ws1,
          Grp(2, Cat(<<Rep(D, 1, 2), Chr({":"}), Rep(D, 2, 2)>>)), Ws,
          Opt(Grp(3, Alt(<<LitI(<<"A", "M">>), LitI(<<"P", "M">>)>>)))>>)

\* \d{1,2}[/-]\d{1,2}[/-]\d{2,4}   and   \d{1,2}:\d{2}(?::\d{2})?
NumericDateRe ==
    Cat(<<Rep(D, 1, 2), Chr({"/", "-"}), Rep(D, 1, 2), Chr({"/", "-"}), Rep(D, 2, 4)>>)
ClockTimeRe ==
    Cat(<<Rep(D, 1, 2), Chr({":"}), Rep(D, 2, 2),
          Opt(Cat(<<Chr({":"}), Rep(D, 2, 2)>>))>>)

\* (?:Fecha|Date)[:\s]*(<date>)(?:\s+(<time>))?
DavibankFechaRe ==
    Cat(<<Alt(<<LitI(<<"F", "e", "c", "h", "a">>), LitI(<<"D", "a", "t", "e">>)>>),
          Star(Chr(Space \cup {":"})), Grp(1, NumericDateRe),
          Opt(Cat(<<Ws1, Grp(2, ClockTimeRe)>>))>>)

\* (<date>)\s+(<time>)
DavibankBareRe == Cat(<<Grp(1, NumericDateRe), Ws1, Grp(2, ClockTimeRe)>>)

\* The directives of datetime.strptime, as _strptime compiles them.
StrptimeDay == Alt(<<Cat(<<Chr({"3"}), Chr({"0", "1"})>>),
                     Cat(<<Chr({"1", "2"}), D>>),
                     Cat(<<Chr({"0"}), Chr(DigitSet \ {"0"})>>),
                     Chr(DigitSet \ {"0"}),
                     Cat(<<Chr({" "}), Chr(DigitSet \ {"0"})>>)>>)
StrptimeMonth == Alt(<<Cat(<<Chr({"1"}), Chr({"0", "1", "2"})>>),
                       Cat(<<Chr({"0"}), Chr(DigitSet \ {"0"})>>),
                       Chr(DigitSet \ {"0"})>>)
StrptimeYear == Rep(D, 4, 4)
StrptimeHour == Alt(<<Cat(<<Chr({"2"}), Chr({"0", "1", "2", "3"})>>),
                      Cat(<<Chr({"0", "1"}), D>>), D>>)
StrptimeMinute == Alt(<<Cat(<<Chr({"0", "1", "2", "3", "4", "5"}), D>>), D>>)
StrptimeSecond == Alt(<<Cat(<<Chr({"6"}), Chr({"0", "1"})>>),
                        Cat(<<Chr({"0", "1", "2", "3", "4", "5"}), D>>), D>>)

\* %d<sep>%m<sep>%Y, then " %H:%M" and ":%S" as the format has them
StrptimeFormat(sep, parts) ==
    Cat(<<Grp(1, StrptimeDay), Chr({sep}), Grp(2, StrptimeMonth), Chr({sep}),
          Grp(3, StrptimeYear)>>
        \o (IF parts >= 1 THEN <<Ws1, Grp(4, StrptimeHour), Chr({":"}),
                                 Grp(5, StrptimeMinute)>> ELSE <<>>)
        \o (IF parts >= 2 THEN <<Chr({":"}), Grp(6, StrptimeSecond)>> ELSE <<>>))

formats == <<StrptimeFormat("/", 2), StrptimeFormat("/", 1), StrptimeFormat("/", 0),
             StrptimeFormat("-", 2), StrptimeFormat("-", 1), StrptimeFormat("-", 0)>>

GroupNat(g) == IF g = NoneVal THEN 0 ELSE StrNat(g)

\* datetime.strptime(s, fmt): the whole of s must match and name a real date
strptime(s, fmt) ==
    LET m == ReMatch(fmt, s, 6)
    IN IF m.found /\ m.end = Len(s) + 1
       THEN MakeDateTime(GroupNat(m.groups[3]), GroupNat(m.groups[2]),
                         GroupNat(m.groups[1]), GroupNat(m.groups[4]),
                         GroupNat(m.groups[5]), GroupNat(m.groups[6]))
       ELSE [ok |-> FALSE, val |-> <<>>]

\* the first try of _parse_date (davibank.py 170-190): the value, or ValueError
ParseDateSplit_noPM(date_str, time_str, am_pm) ==
    LET parts == Split(date_str, {"/"})
    IN IF Len(parts) # 3 \/ \E k \in 1..Len(parts) : ~IsDigits(parts[k])
       THEN [ok |-> FALSE, val |-> <<>>]
       ELSE LET parsed_date == MakeDateTime(StrNat(parts[3]), StrNat(parts[2]),
                                            StrNat(parts[1]), 0, 0, 0)
                timed == time_str # NoneVal /\ Len(time_str) > 0
                tp == IF timed THEN Split(time_str, {":"}) ELSE <<>>
            IN IF ~parsed_date.ok THEN parsed_date
               ELSE IF ~timed THEN parsed_date
               ELSE IF Len(tp) # 2 \/ \E k \in 1..Len(tp) : ~IsDigits(tp[k])
               THEN [ok |-> FALSE, val |-> <<>>]
               ELSE LET h == StrNat(tp[1])
                        hour == IF am_pm # NoneVal /\ Len(am_pm) > 0
                                THEN IF Upper(am_pm) = <<"A", "M">> /\ h = 12
                                     THEN 0
                                     ELSE h
                                ELSE h
                    IN MakeDateTime(parsed_date.val[1], parsed_date.val[2],
                                    parsed_date.val[3], hour, StrNat(tp[2]), 0)

ParseDateSplit(date_str, time_str, am_pm) ==
    LET parts == Split(date_str, {"/"})
    IN IF Len(parts) # 3 \/ \E k \in 1..Len(parts) : ~IsDigits(parts[k])
       THEN [ok |-> FALSE, val |-> <<>>]
       ELSE LET parsed_date == MakeDateTime(StrNat(parts[3]), StrNat(parts[2]),
                                            StrNat(parts[1]), 0, 0, 0)
                timed == time_str # NoneVal /\ Len(time_str) > 0
                tp == IF timed THEN Split(time_str, {":"}) ELSE <<>>
            IN IF ~parsed_date.ok THEN parsed_date
               ELSE IF ~timed THEN parsed_date
               ELSE IF Len(tp) # 2 \/ \E k \in 1..Len(tp) : ~IsDigits(tp[k])
               THEN [ok |-> FALSE, val |-> <<>>]
               ELSE LET h == StrNat(tp[1])
                        hour == IF am_pm # NoneVal /\ Len(am_pm) > 0
                                THEN IF Upper(am_pm) = <<"P", "M">> /\ h # 12
                                     THEN h + 12
                                     ELSE IF Upper(am_pm) = <<"A", "M">> /\ h = 12
                                     THEN 0
                                     ELSE h
                                ELSE h
                    IN MakeDateTime(parsed_date.val[1], parsed_date.val[2],
                                    parsed_date.val[3], hour, StrNat(tp[2]), 0)

\* the loop over formats (davibank.py 206-212)
RECURSIVE TryFormats(_, _, _)
TryFormats(full_str, k, now) ==
    IF k > Len(formats) THEN now
    ELSE LET r == strptime(Strip(full_str), formats[k])
         IN IF r.ok THEN r.val ELSE TryFormats(full_str, k + 1, now)

\* DavibankParserStrategy._parse_date
_parse_date(date_str, time_str, am_pm, now) ==
    LET first == ParseDateSplit(date_str, time_str, am_pm)
        full_str == IF time_str # NoneVal /\ Len(time_str) > 0
                    THEN date_str \o <<" ">> \o time_str ELSE date_str
    IN IF first.ok THEN first.val ELSE TryFormats(full_str, 1, now)

\* DavibankParserStrategy._extract_timestamp
DavibankExtractTimestamp(text, date, now) ==
    LET m1 == ReSearch(DavibankDiaRe, text, 3)
        m2 == ReSearch(DavibankFechaRe, text, 2)
        m3 == ReSearch(DavibankBareRe, text, 2)
    IN IF m1.found THEN _parse_date(m1.groups[1], m1.groups[2], m1.groups[3], now)
       ELSE IF m2.found THEN _parse_date(m2.groups[1], m2.groups[2], NoneVal, now)
       ELSE IF m3.found THEN _parse_date(m3.groups[1], m3.groups[2], NoneVal, now)
       ELSE Midnight(date)

\* ---------------------------------------------------------- field extractors
\* the first of the patterns that is found in text (the loops over patterns)
RECURSIVE FirstFound(_, _, _, _)
FirstFound(patterns, k, text, n) ==
    IF k > Len(patterns) THEN NoMatch
    ELSE LET m == ReSearch(patterns[k], text, n)
         IN IF m.found THEN m ELSE FirstFound(patterns, k + 1, text, n)

\* (.+?)(?:\n|$)
LineRe == Cat(<<Grp(1, Lazy(Plus(AnyChr))), Alt(<<Chr({"\n"}), Eol>>)>>)

\* Comercio:\s*\n\s*(.+?)(?:\n|$)   and   Comercio:\s*(.+?)(?:\n|$)
BacMerchantRes ==
    <<Cat(<<LitI(<<"C", "o", "m", "e", "r", "c", "i", "o", ":">>), Ws, Chr({"\n"}), Ws, LineRe>>),
      Cat(<<LitI(<<"C", "o", "m", "e", "r", "c", "i", "o", ":">>), Ws, LineRe>>)>>

\* BACParserStrategy._extract_merchant
BacExtractMerchant(text) ==
    LET m == FirstFound(BacMerchantRes, 1, text, 1)
    IN IF m.found THEN Strip(m.groups[1]) ELSE <<>>

\* [\d,]+\.?\d*
NumberRe == Cat(<<Plus(Chr(DigitSet \cup {","})), Opt(Chr({"."})), Star(D)>>)

\* (?:USD|CRC|₡|\$) under re.IGNORECASE
CurrencyReI == Alt(<<LitI(USD), LitI(CRC), Chr({"₡"}), Chr({"$"})>>)

\* Monto:\s*\n?\s*((?:USD|CRC|₡|\$)\s*[\d,]+\.?\d*)
BacAmountRe ==
    Cat(<<LitI(<<"M", "o", "n", "t", "o", ":">>), Ws, Opt(Chr({"\n"})), Ws,
          Grp(1, Cat(<<CurrencyReI, Ws, NumberRe>>))>>)

\* ((?:USD|CRC)\s*[\d,]+\.\d{2})
BacAmountAnywhereRe ==
    Grp(1, Cat(<<Alt(<<Lit(USD), Lit(CRC)>>), Ws, Plus(Chr(DigitSet \cup {","})),
                 Chr({"."}), Rep(D, 2, 2)>>))

\* BACParserStrategy._extract_amount: <<hundredths, currency>>
BacExtractAmount(text) ==
    LET m1 == ReSearch(BacAmountRe, text, 1)
        m2 == ReSearch(BacAmountAnywhereRe, text, 1)
    IN IF m1.found THEN _parse_amount_string(m1.groups[1])
       ELSE IF m2.found THEN _parse_amount_string(m2.groups[1])
       ELSE <<0, USD>>

\* \*{4,}(\d{4})   and   [Xx]{4,}(\d{4})
StarsCardRe == Cat(<<RepFrom(Chr({"*"}), 4), Grp(1, Rep(D, 4, 4))>>)
XsCardRe == Cat(<<RepFrom(Chr({"X", "x"}), 4), Grp(1, Rep(D, 4, 4))>>)

\* BACParserStrategy._extract_card
BacExtractCard(text) ==
    LET m == FirstFound(<<StarsCardRe, XsCardRe>>, 1, text, 1)
    IN IF m.found THEN m.groups[1] ELSE <<>>

\* transacci[óo]n\s+realizada\s+en\s+(.+?),\s*el\s+d[íi]a
DavibankSentenceRe ==
    Cat(<<LitI(<<"t", "r", "a", "n", "s", "a", "c", "c", "i">>), ChrI({"ó", "o"}), ChrI({"n"}), Ws1,
          LitI(<<"r", "e", "a", "l", "i", "z", "a", "d", "a">>), Ws1, LitI(<<"e", "n">>), Ws1,
          Grp(1, Lazy(Plus(AnyChr))), Chr({","}), Ws, LitI(<<"e", "l">>), Ws1,
          ChrI({"d"}), ChrI({"í", "i"}), ChrI({"a"})>>)

\* [A-Za-z0-9\s\-\.]+
MerchantWordRe == Plus(Chr(AsciiLetters \cup DigitSet \cup Space \cup {"-", "."}))

\* (?:Comercio|Establecimiento|Merchant)[:\s]+(...)   and   compra\s+(?:en|at)\s+(...)
DavibankMerchantRes ==
    <<DavibankSentenceRe,
      Cat(<<Alt(<<LitI(<<"C", "o", "m", "e", "r", "c", "i", "o">>), LitI(<<"E", "s", "t", "a", "b", "l", "e", "c", "i", "m", "i", "e", "n", "t", "o">>), LitI(<<"M", "e", "r", "c", "h", "a", "n", "t">>)>>),
            Plus(Chr(Space \cup {":"})), Grp(1, MerchantWordRe)>>),
      Cat(<<LitI(<<"c", "o", "m", "p", "r", "a">>), Ws1, Alt(<<LitI(<<"e", "n">>), LitI(<<"a", "t">>)>>), Ws1,
            Grp(1, MerchantWordRe)>>)>>

\* DavibankParserStrategy._extract_merchant
DavibankExtractMerchant(text) ==
    LET m == FirstFound(DavibankMerchantRes, 1, text, 1)
    IN IF m.found THEN Strip(m.groups[1]) ELSE <<>>

\* the three amount patterns of DavibankParserStrategy._extract_amount
DavibankAmountRes ==
    <<Cat(<<Alt(<<LitI(<<"M", "o", "n", "t", "o">>), LitI(<<"A", "m", "o", "u", "n", "t">>), LitI(<<"T", "o", "t", "a", "l">>)>>),
            Star(Chr(Space \cup {":"})), Opt(CurrencyReI), Ws, Grp(1, NumberRe)>>),
      Cat(<<CurrencyReI, Ws, Grp(1, NumberRe)>>),
      Cat(<<Grp(1, NumberRe), Ws,
            Alt(<<LitI(USD), LitI(CRC), LitI(<<"c", "o", "l", "o", "n", "e", "s">>), LitI(<<"d", "ó", "l", "a", "r", "e", "s">>)>>)>>)>>

\* DavibankParserStrategy._extract_amount: <<hundredths, currency>>
DavibankExtractAmount(text) ==
    LET currency == IF \/ Contains(text, CRC)
                       \/ Contains(text, <<"₡">>)
                       \/ Contains(Lower(text), <<"c", "o", "l", "o", "n", "e", "s">>)
                    THEN CRC ELSE USD
        m == FirstFound(DavibankAmountRes, 1, text, 1)
    IN IF m.found THEN <<_parse_amount(m.groups[1]), currency>>
       ELSE <<0, currency>>

\* the six card patterns of DavibankParserStrategy._extract_card
DavibankCardRes ==
    <<Cat(<<Chr({"T", "t"}), Lit(<<"a", "r", "j", "e", "t", "a">>), Star(Chr(Space \cup {":"})),
            Plus(Chr({"*"})), Grp(1, Rep(D, 4, 4))>>),
      Cat(<<Chr({"C", "c"}), Lit(<<"a", "r", "d">>), Star(Chr(Space \cup {":"})),
            Plus(Chr({"*"})), Grp(1, Rep(D, 4, 4))>>),
      StarsCardRe,
      XsCardRe,
      Cat(<<Lit(<<"t", "e", "r", "m", "i", "n", "a", "d", "a">>), Ws1, Lit(<<"e", "n">>), Ws1, Grp(1, Rep(D, 4, 4))>>),
      Cat(<<Lit(<<"e", "n", "d", "i", "n", "g">>), Ws1, Lit(<<"i", "n">>), Ws1, Grp(1, Rep(D, 4, 4))>>)>>

\* DavibankParserStrategy._extract_card
DavibankExtractCard(text) ==
    LET m == FirstFound(DavibankCardRes, 1, text, 1)
    IN IF m.found THEN m.groups[1] ELSE <<>>

\* ------------------------------------------------------------------ parse
\* EmailMessage; a missing body is the empty text
EmailMessage(sender, subject, date, html_body, text_body) ==
    [sender |-> sender, subject |-> subject, date |-> date,
     html_body |-> html_body, text_body |-> text_body]

\* The keywords html.parser accepts after "<![" ; any other makes it reject
\* the markup, and BeautifulSoup(...) raises.
MarkedSections == {<<"t", "e", "m", "p">>, <<"c", "d", "a", "t", "a">>, <<"i", "g", "n", "o", "r", "e">>, <<"i", "n", "c", "l", "u", "d", "e">>, <<"r", "c", "d", "a", "t", "a">>, <<"i", "f">>, <<"e", "l", "s", "e">>, <<"e", "n", "d", "i", "f">>}

RECURSIVE NameAt(_, _)
NameAt(s, i) == IF i <= Len(s) /\ s[i] \in AsciiLetters
                THEN <<s[i]>> \o NameAt(s, i + 1) ELSE <<>>

HtmlRejected(html) ==
    \E i \in 1..(Len(html) - 2) :
        /\ SubSeq(html, i, i + 2) = <<"<", "!", "[">>
        /\ Lower(NameAt(html, i + 3)) \notin MarkedSections

\* the texts between the tags of html
RECURSIVE TextRuns(_)
TextRuns(html) ==
    LET lt == IndexOf(html, "<")
        rest == SubSeq(html, lt + 1, Len(html))
        gt == IndexOf(rest, ">")
    IN IF lt = 0 THEN (IF html # <<>> THEN <<html>> ELSE <<>>)
       ELSE (IF lt > 1 THEN <<SubSeq(html, 1, lt - 1)>> ELSE <<>>)
            \o (IF gt = 0 THEN <<>> ELSE TextRuns(SubSeq(rest, gt + 1, Len(rest))))

RECURSIVE Join(_, _)
Join(runs, sep) == IF Len(runs) = 0 THEN <<>>
                   ELSE IF Len(runs) = 1 THEN runs[1]
                   ELSE runs[1] \o sep \o Join(Tail(runs), sep)

\* BeautifulSoup(html, "html.parser").get_text(separator="\n")
get_text(html) ==
    IF HtmlRejected(html) THEN [raised |-> TRUE, text |-> <<>>]
    ELSE [raised |-> FALSE, text |-> Join(TextRuns(html), <<"\n">>)]

\* the outcomes of parse: a Transaction, None, or an exception that leaves it
Parsed(txn) == [kind |-> "txn", txn |-> txn]
ParsedNone == [kind |-> "None", txn |-> NoneVal]
ParseRaised == [kind |-> "raised", txn |-> NoneVal]

\* The steps of parse in which a fault can be injected.
Steps == {"merchant", "amount", "card", "timestamp", "Transaction"}

SUBJECT_PATTERN_BAC == <<"N", "o", "t", "i", "f", "i", "c", "a", "c", "i", "ó", "n", " ", "d", "e", " ", "t", "r", "a", "n", "s", "a", "c", "c", "i", "ó", "n">>
SUBJECT_PATTERN_Davibank == <<"A", "l", "e", "r", "t", "a", " ", "T", "r", "a", "n", "s", "a", "c", "c", "i", "ó", "n", " ", "T", "a", "r", "j", "e", "t", "a", " ", "d", "e", " ", "C", "r", "é", "d", "i", "t", "o", " ", "T", "i", "t", "u", "l", "a", "r">>

BacCanParse(email) == Contains(email.subject, SUBJECT_PATTERN_BAC)
DavibankCanParse(email) == Contains(email.subject, SUBJECT_PATTERN_Davibank)

BacParseText(text, email, now, fault) ==
    IF fault \in Steps THEN ParsedNone
    ELSE The(
             {IF merchant = <<>> \/ card_last4 = <<>> THEN ParsedNone
              ELSE Parsed(Transaction(timestamp, merchant, amount[1], amount[2],
                                      BAC, card_last4, NoNotes, NoneVal)) :
                  merchant \in {BacExtractMerchant(text)},
                  amount \in {BacExtractAmount(text)},
                  card_last4 \in {BacExtractCard(text)},
                  timestamp \in {BacExtractTimestamp(text, email.date, now)}})

\* BACParserStrategy.parse; fault names the step that raises, if any
BacParse(email, now, fault) ==
    IF email.html_body # <<>>
    THEN The(
             {IF soup.raised THEN ParseRaised
              ELSE BacParseText(soup.text, email, now, fault) :
                  soup \in {get_text(email.html_body)}})
    ELSE IF email.text_body # <<>>
    THEN BacParseText(email.text_body, email, now, fault)
    ELSE ParsedNone

\* DavibankParserStrategy.parse
DavibankParse(email, now, fault) ==
    LET text == IF email.text_body # <<>> THEN email.text_body ELSE email.html_body
    IN IF text = <<>> THEN ParsedNone
       ELSE IF fault \in Steps THEN ParsedNone
       ELSE The(
                {IF merchant = <<>> \/ card_last4 = <<>> THEN ParsedNone
                 ELSE Parsed(Transaction(timestamp, merchant, amount[1], amount[2],
                                         Davibank, card_last4, NoNotes, NoneVal)) :
                     merchant \in {DavibankExtractMerchant(text)},
                     amount \in {DavibankExtractAmount(text)},
                     card_last4 \in {DavibankExtractCard(text)},
                     timestamp \in {DavibankExtractTimestamp(text, email.date, now)}})

\* ----------------------------------------------------- amount parser runs
AmountChars == {"1", "5", ",", "."}

AmountExamples == {
    <<"1", ",", "2", "3", "4", ".", "5", "6">>,
    <<"1", ".", "2", "3", "4", ",", "5", "6">>,
    <<"1", "2", ",", "3", "4">>,
    <<"C", "R", "C", " ", "1", ",", "5", "0", "0">>,
    <<"₡", "1", ",", "5", "0", "0">>,
    <<"$", " ", "2", ".", "6", "7", "5">>,
    <<"1", ",", "2", "3", "4", ",", "5", "6">>,
    <<"1", ".", "2", ",", "3", ".", "4">>,
    <<"0", ".", "1", "2", "5">>,
    <<"1", "5", "0", "0", " ", "c", "o", "l", "o", "n", "e", "s">>}

AmountTokens ==
    LET generated == SeqsUpTo(AmountChars, MaxTokenLen)
    IN generated \cup {<<"C", "R", "C", " ">> \o t : t \in generated}
                 \cup AmountExamples

InitAmount == /\ file = <<>>
              /\ \E t \in AmountTokens : last = [op |-> "token", token |-> t]

ParseAmountBAC ==
    /\ last.op = "token"
    /\ LET r == _parse_amount_string(last.token)
       IN last' = [op |-> "parse_amount", strategy |-> "BAC", token |-> last.token,
                   amount |-> r[1], currency |-> r[2]]
    /\ UNCHANGED file

ParseAmountDavibank ==
    /\ last.op = "token"
    /\ last' = [op |-> "parse_amount", strategy |-> "Davibank", token |-> last.token,
                amount |-> _parse_amount(last.token), currency |-> NoneVal]
    /\ UNCHANGED file

NextAmount == ParseAmountBAC \/ ParseAmountDavibank

SpecAmount == InitAmount /\ [][NextAmount]_vars

\* ------------------------------------------------- Davivienda amount parser
\* floor(log2(num / den)) for num, den > 0
RECURSIVE FloorLog2(_, _)
FloorLog2(num, den) ==
    IF num >= 2 * den THEN 1 + FloorLog2(num, 2 * den)
    ELSE IF num < den THEN FloorLog2(2 * num, den) - 1
    ELSE 0

\* 2^s modulo 200, for 0 <= s < 70
Pow2Mod200(s) == (((24 ^ (s \div 10)) % 200) * (2 ^ (s % 10))) % 200

\* int(float(text) * 100) for a text of n hundredths exactly: the double
\* nearest to n/100 is m * 2^-s with m = round(n * 2^s / 100); times 100 it
\* is n plus an error of at most 50 * 2^-s, and the product rounds to the
\* double below n when the error is under minus half the spacing of the
\* doubles below n, which is 64 * 2^-s or more.
IntOfFloatTimes100(n) ==
    IF n = 0 THEN 0
    ELSE The({The({IF /\ (FloorLog2(n, 1) - FloorLog2(n, 100) = 6
                          \/ n = 2 ^ FloorLog2(n, 1))
                      /\ \/ (r200 % 100 > 32 /\ r200 % 100 < 50)
                         \/ r200 = 50
                   THEN n - 1 ELSE n :
                      r200 \in {((n % 200) * Pow2Mod200(s)) % 200}}) :
                 s \in {MantissaBits - 1 - FloorLog2(n, 100)}})

\* DaviviendaParserStrategy._parse_amount: the value given to
\* Transaction.amount, in hundredths of that value's unit
Davivienda_parse_amount(amount_str) ==
    LET stripped == KeepNumeric(amount_str)
        numeric ==
            IF HasChar(stripped, ",") /\ HasChar(stripped, ".")
            THEN IF RFind(stripped, ",") > RFind(stripped, ".")
                 THEN Replace(Remove(stripped, "."), ",", ".")
                 ELSE Remove(stripped, ",")
            ELSE IF HasChar(stripped, ",")
            THEN IF Len(stripped) - RFind(stripped, ",") = 2
                 THEN Replace(stripped, ",", ".")
                 ELSE Remove(stripped, ",")
            ELSE stripped
    IN IF ~FloatSyntaxOk(numeric) THEN 0
       ELSE IF \E k \in 3..Len(FracDigits(numeric)) : FracDigits(numeric)[k] # "0"
       THEN 100 * Hundredths(numeric)
       ELSE 100 * IntOfFloatTimes100(Hundredths(numeric))

ParseAmountDavivienda ==
    /\ last.op = "token"
    /\ last' = [op |-> "parse_amount", strategy |-> "Davivienda", token |-> last.token,
                amount |-> Davivienda_parse_amount(last.token), currency |-> NoneVal]
    /\ UNCHANGED file

NextAmounts == ParseAmountBAC \/ ParseAmountDavibank \/ ParseAmountDavivienda

\* the amount parsers of the three strategies of the code base
SpecAmounts == InitAmount /\ [][NextAmounts]_vars

\* ------------------------------------------------- timestamp extractor runs
\* A generated body keeps, next to its text, the numbers it was written from.
\* kind: "dia" (Davibank's sentence), "spanish" and "numeric" (after Fecha:),
\* "bare" (a date and a time alone), "none" (no date in the body).
Body(kind, text, y, mo, d, h, mi, marker, word) ==
    [kind |-> kind, text |-> text, y |-> y, mo |-> mo, d |-> d, h |-> h,
     mi |-> mi, marker |-> marker, word |-> word]

\* day, month and year as written in the numeric bodies
BodyDates == {<<2, 1, 2026>>, <<29, 2, 2024>>, <<31, 2, 2026>>, <<15, 13, 2026>>}
BodyMinutes == {5, 59, 60}
BodyMarkers == {<<>>, <<" ", "A", "M">>, <<" ", "P", "M">>, <<"p", "m">>}
BodyMonthWords == {<<"E", "n", "e">>, <<"d", "i", "c">>, <<"S", "e", "p", "t">>,
                   <<"S", "e", "t">>, <<"F", "o", "o">>}

\* an hour below 10 is written with and without its leading zero
HourTexts(h) == {NatStr(h), Pad2(h)}

DateText(dmy, sep) ==
    Pad2(dmy[1]) \o <<sep>> \o Pad2(dmy[2]) \o <<sep>> \o Pad4(dmy[3])

MarkerOf(marker) == Upper(Strip(marker))

HourPairs == UNION {{<<h, ht>> : ht \in HourTexts(h)} : h \in 0..MaxHour}

DiaBodies ==
    {Body("dia",
          <<"e", "l", " ", "d", "í", "a", " ">> \o DateText(dmy, "/")
              \o <<" ", "a", " ", "l", "a", "s", " ">> \o hp[2] \o <<":">>
              \o Pad2(mi) \o marker,
          dmy[3], dmy[2], dmy[1], hp[1], mi, MarkerOf(marker), <<>>) :
        dmy \in BodyDates, hp \in HourPairs, mi \in BodyMinutes, marker \in BodyMarkers}

SpanishBodies ==
    {Body("spanish",
          <<"F", "e", "c", "h", "a", ":", " ">> \o word \o <<" ">> \o NatStr(d) \o <<",", " ", "2", "0", "2", "6", ",", " ">>
              \o NatStr(h) \o <<":">> \o Pad2(mi),
          2026, 0, d, h, mi, <<>>, word) :
        word \in BodyMonthWords, d \in {0, 3, 31}, h \in {8, 24}, mi \in BodyMinutes}

NumericBodies ==
    {Body("numeric",
          <<"F", "e", "c", "h", "a", ":", " ">> \o DateText(dmy, sep) \o <<" ">> \o Pad2(h) \o <<":">> \o Pad2(mi),
          dmy[3], dmy[2], dmy[1], h, mi, <<>>, <<>>) :
        dmy \in BodyDates, sep \in {"/", "-"}, h \in {8, 24}, mi \in BodyMinutes}

BareBodies ==
    {Body("bare",
          DateText(dmy, "/") \o <<" ">> \o Pad2(h) \o <<":">> \o Pad2(mi),
          dmy[3], dmy[2], dmy[1], h, mi, <<>>, <<>>) :
        dmy \in BodyDates, h \in {8, 24}, mi \in BodyMinutes}

NoDateTexts == {
    <<>>,
    <<"h", "o", "l", "a">>,
    <<"F", "e", "c", "h", "a", ":">>,
    <<"F", "e", "c", "h", "a", ":", " ", "m", "a", "ñ", "a", "n", "a">>,
    <<"e", "l", " ", "d", "í", "a", " ", "d", "e", " ", "h", "o", "y", " ", "a", " ", "l", "a", "s", " ", "o", "c", "h", "o">>,
    <<"C", "o", "m", "e", "r", "c", "i", "o", ":", " ", "X", "\n", "M", "o", "n", "t", "o", ":", " ", "U", "S", "D", " ", "5", ".", "0", "0">>,
    <<"T", "a", "r", "j", "e", "t", "a", " ", "*", "*", "*", "*", "1", "2", "3", "4", " ", "e", "l", " ", "2", "0", "2", "6">>}

NoDateBodies == {Body("none", t, 0, 0, 0, 0, 0, <<>>, <<>>) : t \in NoDateTexts}

TimeBodies ==
    DiaBodies \cup SpanishBodies \cup NumericBodies \cup BareBodies \cup NoDateBodies

\* email.date, and the values datetime.now() may return
EmailDates == {<<2026, 1, 5>>, <<2024, 2, 29>>}
Clock == {<<2030, 6, 7, 8, 9, 10>>, <<2026, 1, 5, 0, 0, 0>>}

InitTime ==
    /\ file = <<>>
    /\ \E b \in TimeBodies, date \in EmailDates :
           last = [op |-> "message", body |-> b, date |-> date]

ExtractTimestampBAC ==
    /\ last.op = "message"
    /\ \E now \in Clock :
           last' = [op |-> "extract_timestamp", strategy |-> "BAC",
                    body |-> last.body, date |-> last.date, now |-> now,
                    out |-> BacExtractTimestamp(last.body.text, last.date, now)]
    /\ UNCHANGED file

ExtractTimestampDavibank ==
    /\ last.op = "message"
    /\ \E now \in Clock :
           last' = [op |-> "extract_timestamp", strategy |-> "Davibank",
                    body |-> last.body, date |-> last.date, now |-> now,
                    out |-> DavibankExtractTimestamp(last.body.text, last.date, now)]
    /\ UNCHANGED file

NextTime == ExtractTimestampBAC \/ ExtractTimestampDavibank

SpecTime == InitTime /\ [][NextTime]_vars

\* --------------------------------------------------------------- parse runs
\* The lines a notification body is written from; <<>> leaves the line out.
MerchantLines == {<<>>, <<"C", "o", "m", "e", "r", "c", "i", "o", ":", " ", "S", "H", "O", "P">>}
AmountLines == {<<>>, <<"M", "o", "n", "t", "o", ":", " ", "U", "S", "D", " ", "1", "2", ".", "5", "0">>}
CardLines == {<<>>, <<"T", "a", "r", "j", "e", "t", "a", ":", " ", "*", "*", "*", "*", "1", "2", "3", "4">>, <<"t", "e", "r", "m", "i", "n", "a", "d", "a", " ", "e", "n", " ", "1", "2", "3", "4">>}
DateLines == {<<>>, <<"F", "e", "c", "h", "a", ":", " ", "E", "n", "e", " ", "3", ",", " ", "2", "0", "2", "6", ",", " ", "1", "8", ":", "4", "2">>, <<"F", "e", "c", "h", "a", ":", " ", "3", "1", "/", "0", "2", "/", "2", "0", "2", "6", ",", " ", "1", "0", ":", "0", "0">>}
SentenceLines == {<<>>, <<"t", "r", "a", "n", "s", "a", "c", "c", "i", "ó", "n", " ", "r", "e", "a", "l", "i", "z", "a", "d", "a", " ", "e", "n", " ", "S", "H", "O", "P", ",", " ", "e", "l", " ", "d", "í", "a", " ", "0", "2", "/", "0", "1", "/", "2", "0", "2", "6", " ", "a", " ", "l", "a", "s", " ", "0", "8", ":", "5", "4", " ", "P", "M">>}

Lines(ls) == Join(SelectSeq(ls, LAMBDA l : l # <<>>), <<"\n">>)

\* each line in a <p> element
RECURSIVE Paragraphs(_)
Paragraphs(ls) ==
    IF Len(ls) = 0 THEN <<>>
    ELSE (IF ls[1] = <<>> THEN <<>>
          ELSE <<"<", "p", ">">> \o ls[1] \o <<"<", "/", "p", ">">>)
         \o Paragraphs(Tail(ls))

RejectedMarkup == <<"<", "!", "[", "x", "]", ">">>

Sender == <<"a", "l", "e", "r", "t", "a", "s", "@", "b", "a", "n", "c", "o", ".", "c", "r">>

\* A message, with what its body holds of merchant, amount and card.
Message(subject, html_body, text_body, ls) ==
    [email |-> EmailMessage(Sender, subject, <<2026, 1, 5>>, html_body, text_body),
     merchant |-> ls[1] # <<>>, amount |-> ls[2] # <<>>, card |-> ls[3] # <<>>]

BacLineSets ==
    {<<m, a, c, d>> : m \in MerchantLines, a \in AmountLines, c \in CardLines,
                      d \in DateLines}
DavibankLineSets ==
    {<<m, a, c>> : m \in SentenceLines, a \in AmountLines, c \in CardLines}

ParseMessages ==
    {Message(SUBJECT_PATTERN_BAC, <<>>, Lines(ls), ls) : ls \in BacLineSets}
    \cup {Message(SUBJECT_PATTERN_BAC, Paragraphs(ls), <<>>, ls) : ls \in BacLineSets}
    \cup {Message(SUBJECT_PATTERN_Davibank, <<>>, Lines(ls), ls) : ls \in DavibankLineSets}
    \cup {Message(SUBJECT_PATTERN_BAC, RejectedMarkup \o Paragraphs(ls), Lines(ls), ls) :
             ls \in {<<m, a, c, <<>>>> : m \in MerchantLines, a \in AmountLines,
                                         c \in CardLines}}

InitParse ==
    /\ file = <<>>
    /\ \E m \in ParseMessages : last = [op |-> "message", msg |-> m]

ParseBAC ==
    /\ last.op = "message"
    /\ \E now \in Clock, fault \in Steps \cup {"none"} :
           last' = [op |-> "parse", strategy |-> "BAC", msg |-> last.msg,
                    now |-> now, fault |-> fault,
                    result |-> BacParse(last.msg.email, now, fault)]
    /\ UNCHANGED file

ParseDavibank ==
    /\ last.op = "message"
    /\ \E now \in Clock, fault \in Steps \cup {"none"} :
           last' = [op |-> "parse", strategy |-> "Davibank", msg |-> last.msg,
                    now |-> now, fault |-> fault,
                    result |-> DavibankParse(last.msg.email, now, fault)]
    /\ UNCHANGED file

NextParse == ParseBAC \/ ParseDavibank

SpecParse == InitParse /\ [][NextParse]_vars

\* ----------------------------------------------------------- ParserFactory
DAVIVIENDA_SENDERS == <<<<"n", "o", "t", "i", "f", "i", "c", "a", "c", "i", "o", "n", "e", "s", "@", "d", "a", "v", "i", "v", "i", "e", "n", "d", "a", ".", "c", "o", "m">>,
                        <<"a", "l", "e", "r", "t", "a", "s", "@", "d", "a", "v", "i", "v", "i", "e", "n", "d", "a", ".", "c", "r">>,
                        <<"a", "v", "i", "s", "o", "s", "@", "d", "a", "v", "i", "v", "i", "e", "n", "d", "a", ".", "c", "o", "m">>>>

\* DaviviendaParserStrategy.can_parse
DaviviendaCanParse(email) ==
    \E k \in 1..Len(DAVIVIENDA_SENDERS) :
        Contains(Lower(email.sender), DAVIVIENDA_SENDERS[k])

\* strategy.can_parse(email), the strategy named by its institution
can_parse(strategy, email) ==
    CASE strategy = "BAC" -> BacCanParse(email)
      [] strategy = "Davibank" -> DavibankCanParse(email)
      [] strategy = "Davivienda" -> DaviviendaCanParse(email)

\* ParserFactory.__init__
_strategies == <<"BAC", "Davibank">>

\* the result of get_strategy: the strategy found, with its place in the list
Found(strategies, k) == [index |-> k, strategy |-> strategies[k]]
NoStrategy == [index |-> 0, strategy |-> "None"]

RECURSIVE get_strategy_lastMatch(_, _)
get_strategy_lastMatch(strategies, email) ==
    IF Len(strategies) = 0 THEN NoStrategy
    ELSE IF can_parse(strategies[Len(strategies)], email)
    THEN Found(strategies, Len(strategies))
    ELSE get_strategy_lastMatch(SubSeq(strategies, 1, Len(strategies) - 1), email)

\* the loop of get_strategy from the k-th strategy on
RECURSIVE get_strategy_from(_, _, _)
get_strategy_from(strategies, k, email) ==
    IF k > Len(strategies) THEN NoStrategy
    ELSE IF can_parse(strategies[k], email) THEN Found(strategies, k)
    ELSE get_strategy_from(strategies, k + 1, email)

\* ParserFactory.get_strategy
get_strategy(strategies, email) == get_strategy_from(strategies, 1, email)

\* ParserFactory.register_strategy
register_strategy(strategies, strategy) == Append(strategies, strategy)

StrategyKinds == {"BAC", "Davibank", "Davivienda"}

FactoryEmails ==
    {EmailMessage(sender, subject, <<2026, 1, 5>>, <<>>, <<>>) :
        sender \in {Sender, <<"A", "l", "e", "r", "t", "a", "s", "@", "D", "a", "v", "i", "v", "i", "e", "n", "d", "a", ".", "c", "r">>},
        subject \in {SUBJECT_PATTERN_BAC, SUBJECT_PATTERN_Davibank,
                     <<"R", "E", ":", " ">> \o SUBJECT_PATTERN_Davibank
                         \o <<" ", "/", " ">> \o SUBJECT_PATTERN_BAC,
                     <<"H", "o", "l", "a">>}}

InitFactory ==
    /\ file = <<>>
    /\ last = [op |-> "ParserFactory", strategies |-> _strategies,
               email |-> NoneVal, out |-> NoStrategy]

RegisterStrategy ==
    /\ Len(last.strategies) < MaxStrategies
    /\ \E strategy \in StrategyKinds :
           last' = [op |-> "register_strategy",
                    strategies |-> register_strategy(last.strategies, strategy),
                    email |-> NoneVal, out |-> NoStrategy]
    /\ UNCHANGED file

GetStrategy ==
    /\ \E email \in FactoryEmails :
           last' = [op |-> "get_strategy", strategies |-> last.strategies,
                    email |-> email, out |-> get_strategy(last.strategies, email)]
    /\ UNCHANGED file

NextFactory == RegisterStrategy \/ GetStrategy

SpecFactory == InitFactory /\ [][NextFactory]_vars

\* ------------------------------------------------------- sync and backfill
\* strategy.parse(email) for the strategies the factory is built with
parse(strategy, email, now, fault) ==
    IF strategy = "BAC" THEN BacParse(email, now, fault)
    ELSE DavibankParse(email, now, fault)

\* the messages in the mailbox
GoodLines == <<<<"C", "o", "m", "e", "r", "c", "i", "o", ":", " ", "S", "H", "O", "P">>, <<"M", "o", "n", "t", "o", ":", " ", "U", "S", "D", " ", "1", "2", ".", "5", "0">>, <<"T", "a", "r", "j", "e", "t", "a", ":", " ", "*", "*", "*", "*", "1", "2", "3", "4">>, <<"F", "e", "c", "h", "a", ":", " ", "E", "n", "e", " ", "3", ",", " ", "2", "0", "2", "6", ",", " ", "1", "8", ":", "4", "2">>>>
GoodEmail == EmailMessage(Sender, SUBJECT_PATTERN_BAC, <<2026, 1, 5>>, <<>>, Lines(GoodLines))
BadDateEmail ==
    EmailMessage(Sender, SUBJECT_PATTERN_Davibank, <<2026, 1, 5>>, <<>>,
                 Lines(<<<<"t", "r", "a", "n", "s", "a", "c", "c", "i", "ó", "n", " ", "r", "e", "a", "l", "i", "z", "a", "d", "a", " ", "e", "n", " ", "S", "H", "O", "P", ",", " ", "e", "l", " ", "d", "í", "a", " ", "3", "1", "/", "0", "2", "/", "2", "0", "2", "6", " ", "a", " ", "l", "a", "s", " ", "0", "8", ":", "5", "4", " ", "P", "M">>, <<"M", "o", "n", "t", "o", ":", " ", "U", "S", "D", " ", "1", "2", ".", "5", "0">>, <<"T", "a", "r", "j", "e", "t", "a", ":", " ", "*", "*", "*", "*", "1", "2", "3", "4">>>>))
NoMerchantEmail ==
    EmailMessage(Sender, SUBJECT_PATTERN_BAC, <<2026, 1, 5>>, <<>>, <<"M", "o", "n", "t", "o", ":", " ", "U", "S", "D", " ", "1", "2", ".", "5", "0">>)
OtherEmail == EmailMessage(Sender, <<"H", "o", "l", "a">>, <<2026, 1, 5>>, <<>>, Lines(GoodLines))
RejectedEmail ==
    EmailMessage(Sender, SUBJECT_PATTERN_BAC, <<2026, 1, 5>>,
                 RejectedMarkup \o Paragraphs(GoodLines), <<>>)

SyncEmails == {GoodEmail, BadDateEmail, NoMerchantEmail, OtherEmail, RejectedEmail}

\* strategy.parse(email) of every message of the mailbox at every clock value
\* (None where no strategy claims the message)
Transactions ==
    [email \in SyncEmails |->
        [now \in Clock |->
            LET strategy == get_strategy(_strategies, email)
            IN IF strategy = NoStrategy THEN ParsedNone
               ELSE parse(strategy.strategy, email, now, "none")]]

\* the state of one run of the loop: the ledger, the SyncResult counters,
\* whether an exception left the loop, and what happened to each message
SyncState(f) == [file |-> f, processed |-> 0, errors |-> 0, skipped |-> 0,
                 raised |-> FALSE, trace |-> <<>>]

Turn(st, outcome, saved, id) ==
    [outcome |-> outcome, saved |-> saved, id |-> id, file |-> st.file,
     processed |-> st.processed, errors |-> st.errors, skipped |-> st.skipped]

Traced(st, outcome, saved, id) ==
    [st EXCEPT !.trace = Append(@, Turn(st, outcome, saved, id))]

\* the body of the loop as it would be if a message without a strategy were
\* counted with the failures
SyncTurn_unmatchedIsError(st, email, now) ==
    The({IF strategy = NoStrategy
         THEN Traced([st EXCEPT !.errors = @ + 1], "no_strategy", FALSE, NoneVal)
         ELSE The({IF transaction.kind = "raised"
                   THEN Traced([st EXCEPT !.raised = TRUE], "raised", FALSE, NoneVal)
                   ELSE IF transaction.kind = "None"
                   THEN Traced([st EXCEPT !.errors = @ + 1], "error", FALSE, NoneVal)
                   ELSE The({IF r.raised
                             THEN Traced([st EXCEPT !.raised = TRUE], "raised", TRUE, id)
                             ELSE IF r.ret
                             THEN Traced([st EXCEPT !.file = r.file, !.processed = @ + 1],
                                         "processed", TRUE, id)
                             ELSE Traced([st EXCEPT !.skipped = @ + 1],
                                         "duplicate", TRUE, id) :
                                r \in {save(st.file, transaction.txn)},
                                id \in {global_id(transaction.txn)}}) :
                      transaction \in {Transactions[email][now]}}) :
            strategy \in {get_strategy(_strategies, email)}})

\* the body of the loop of sync_emails and backfill_emails for one message
SyncTurn(st, email, now) ==
    The({IF strategy = NoStrategy
         THEN Traced([st EXCEPT !.skipped = @ + 1], "no_strategy", FALSE, NoneVal)
         ELSE The({IF transaction.kind = "raised"
                   THEN Traced([st EXCEPT !.raised = TRUE], "raised", FALSE, NoneVal)
                   ELSE IF transaction.kind = "None"
                   THEN Traced([st EXCEPT !.errors = @ + 1], "error", FALSE, NoneVal)
                   ELSE The({IF r.raised
                             THEN Traced([st EXCEPT !.raised = TRUE], "raised", TRUE, id)
                             ELSE IF r.ret
                             THEN Traced([st EXCEPT !.file = r.file, !.processed = @ + 1],
                                         "processed", TRUE, id)
                             ELSE Traced([st EXCEPT !.skipped = @ + 1],
                                         "duplicate", TRUE, id) :
                                r \in {save(st.file, transaction.txn)},
                                id \in {global_id(transaction.txn)}}) :
                      transaction \in {Transactions[email][now]}}) :
            strategy \in {get_strategy(_strategies, email)}})

\* what the mailbox hands to one request
Inboxes ==
    {<<e>> : e \in SyncEmails}
    \cup {<<OtherEmail, e>> : e \in SyncEmails}
    \cup {<<GoodEmail, OtherEmail>>, <<GoodEmail, GoodEmail>>,
          <<RejectedEmail, GoodEmail>>, <<BadDateEmail, BadDateEmail>>,
          <<NoMerchantEmail, GoodEmail>>}

RECURSIVE SyncLoop(_, _, _, _)
SyncLoop(emails, nows, k, st) ==
    IF k > Len(emails) \/ st.raised THEN st
    ELSE The({SyncLoop(emails, nows, k + 1, next) :
                 next \in {SyncTurn(st, emails[k], nows[k])}})

\* the response: the SyncResult, or HTTP 500 when the loop raised
Response(st) ==
    IF st.raised THEN <<"HTTP 500">>
    ELSE <<st.processed, st.errors, st.skipped>>

Handled(op, emails, nows, st) ==
    [op |-> op, emails |-> emails, nows |-> nows, before |-> file,
     trace |-> st.trace, raised |-> st.raised, out |-> Response(st)]

InitSync == /\ file = <<>>
            /\ last = [op |-> "start", emails |-> <<>>, nows |-> <<>>, before |-> <<>>,
                       trace |-> <<>>, raised |-> FALSE, out |-> <<>>]

sync_emails ==
    \E emails \in Inboxes : \E nows \in [1..Len(emails) -> Clock] :
        \E st \in {SyncLoop(emails, nows, 1, SyncState(file))} :
            /\ file' = st.file
            /\ last' = Handled("sync", emails, nows, st)

backfill_emails ==
    \E emails \in Inboxes : \E nows \in [1..Len(emails) -> Clock] :
        \E st \in {SyncLoop(emails, nows, 1, SyncState(file))} :
            /\ file' = st.file
            /\ last' = Handled("backfill", emails, nows, st)

NextSync == sync_emails \/ backfill_emails

SpecSync == InitSync /\ [][NextSync]_vars

\* ====================================================== CategoryRepository
\* The characters in code point order: str comparison, as sorted uses it.
CodePoints ==
    <<"\t", "\n", "\r", " ">> \o Digits
    \o SubSeq(UpperChars, 1, 26) \o SubSeq(LowerChars, 1, 26)
    \o SubSeq(UpperChars, 27, Len(UpperChars)) \o SubSeq(LowerChars, 27, Len(LowerChars))

ord(ch) == IndexOf(CodePoints, ch)

\* a < b for two str
StrLess(a, b) ==
    \E i \in 1..(Len(b)) :
        /\ i <= Len(a) + 1
        /\ \A j \in 1..(i - 1) : a[j] = b[j]
        /\ (i = Len(a) + 1 \/ ord(a[i]) < ord(b[i]))

\* A dict[str, str] is the sequence of its <<key, value>> items in insertion
\* order; dict equality compares the items as a set.
DictItems(d) == {d[i] : i \in 1..Len(d)}
DictKeys(d) == {d[i][1] : i \in 1..Len(d)}

\* d.get(key)
DictGet(d, key) ==
    IF key \in DictKeys(d) THEN (CHOOSE item \in DictItems(d) : item[1] = key)[2]
    ELSE NoneVal

\* d[key] = value
DictSet(d, key, value) ==
    IF key \in DictKeys(d)
    THEN [i \in 1..Len(d) |-> IF d[i][1] = key THEN <<key, value>> ELSE d[i]]
    ELSE Append(d, <<key, value>>)

\* sorted(d.items())
SortedItems(d) ==
    [i \in 1..Len(d) |->
        CHOOSE item \in DictItems(d) :
            Cardinality({other \in DictItems(d) : StrLess(other[1], item[1])}) = i - 1]

\* a row of the mappings file
MappingRow(merchant, category) == [merchant |-> merchant, category |-> category]

\* CategoryRepository._load_cache: the dict read from the rows of the file
RECURSIVE CategoryRepository_load_cache(_, _)
CategoryRepository_load_cache(rows, cache) ==
    IF rows = <<>> THEN cache
    ELSE The({CategoryRepository_load_cache(
                  Tail(rows),
                  IF merchant # <<>> /\ category # <<>>
                  THEN DictSet(cache, merchant, category) ELSE cache) :
                 merchant \in {Lower(Strip(Head(rows).merchant))},
                 category \in {Strip(Head(rows).category)}})

\* CategoryRepository._write_all as it would be without sorted()
CategoryRepository_write_all_unsorted(cache) ==
    [i \in 1..Len(cache) |-> MappingRow(cache[i][1], cache[i][2])]

\* CategoryRepository._write_all: the rows of the rewritten file
CategoryRepository_write_all(cache) ==
    [i \in 1..Len(cache) |->
        MappingRow(SortedItems(cache)[i][1], SortedItems(cache)[i][2])]

\* CategoryRepository.get_category
get_category(cache, merchant) == DictGet(cache, Lower(Strip(merchant)))

\* CategoryRepository.set_category as it would be with the key only trimmed
set_category_caseSensitive(cache, rows, merchant, category) ==
    The({IF normalized_merchant = <<>> \/ Strip(category) = <<>>
         THEN [cache |-> cache, file |-> rows]
         ELSE The({[cache |-> updated, file |-> CategoryRepository_write_all(updated)] :
                      updated \in {DictSet(cache, normalized_merchant, Strip(category))}}) :
            normalized_merchant \in {Strip(merchant)}})

\* CategoryRepository.set_category: the cache and the file after the call
set_category(cache, rows, merchant, category) ==
    The({IF normalized_merchant = <<>> \/ Strip(category) = <<>>
         THEN [cache |-> cache, file |-> rows]
         ELSE The({[cache |-> updated, file |-> CategoryRepository_write_all(updated)] :
                      updated \in {DictSet(cache, normalized_merchant, Strip(category))}}) :
            normalized_merchant \in {Lower(Strip(merchant))}})

\* CategoryRepository.get_all_mappings
get_all_mappings(cache) == cache

\* the arguments of the calls
Merchants == {<<"S", "h", "o", "p">>, <<" ", "s", "h", "o", "p", " ">>, <<"C", "a", "f", "e">>, <<" ">>}
Categories == {<<"F", "o", "o", "d">>, <<" ", "F", "u", "n", " ">>, <<" ">>}

\* `file` is the mappings file (its rows under the header); `last` holds the
\* repository object (its _cache), the last call, and the set_category
\* calls made so far.
Mapped(op, cache, merchant, category, before, out, calls) ==
    [op |-> op, cache |-> cache, merchant |-> merchant, category |-> category,
     before |-> before, out |-> out, calls |-> calls]

\* CategoryRepository.__init__ on a path with no file: header only
InitCategory == /\ file = <<>>
                /\ last = Mapped("init", <<>>, <<>>, <<>>,
                                 [cache |-> <<>>, file |-> <<>>], NoneVal, <<>>)

SetCategory ==
    \E merchant \in Merchants, category \in Categories :
        \E r \in {set_category(last.cache, file, merchant, category)} :
            /\ Len(last.calls) < MaxCalls
            /\ file' = r.file
            /\ last' = Mapped("set_category", r.cache, merchant, category,
                              [cache |-> last.cache, file |-> file], NoneVal,
                              Append(last.calls, <<merchant, category>>))

GetCategory ==
    \E merchant \in Merchants :
        /\ file' = file
        /\ last' = Mapped("get_category", last.cache, merchant, <<>>,
                          [cache |-> last.cache, file |-> file],
                          get_category(last.cache, merchant), last.calls)

GetAllMappings ==
    /\ file' = file
    /\ last' = Mapped("get_all_mappings", last.cache, <<>>, <<>>,
                      [cache |-> last.cache, file |-> file],
                      get_all_mappings(last.cache), last.calls)

\* a new CategoryRepository on the same path
Reopen ==
    /\ file' = file
    /\ last' = Mapped("__init__", CategoryRepository_load_cache(file, <<>>), <<>>, <<>>,
                      [cache |-> last.cache, file |-> file], NoneVal, last.calls)

NextCategory == SetCategory \/ GetCategory \/ GetAllMappings \/ Reopen

SpecCategory == InitCategory /\ [][NextCategory]_vars

\* ---------------------------------------------------- field extractor runs
\* the pieces a body's card line is written from
CardPieces == {<<"*", "*", "*", "*", "1", "2", "3", "4">>,
               <<"X", "X", "X", "X", "5", "6", "7", "8">>,
               <<"x", "x", "x", "x", "x", "5", "6", "7", "8">>,
               <<"t", "e", "r", "m", "i", "n", "a", "d", "a", " ", "e", "n", " ", "9", "0", "1", "2">>,
               <<"e", "n", "d", "i", "n", "g", " ", "i", "n", " ", "9", "0", "1", "2">>,
               <<"*", "*", "*", "4", "3", "2", "1">>,
               <<"T", "a", "r", "j", "e", "t", "a", ":", " ", "*", "4", "3", "2", "1">>,
               <<"C", "a", "r", "d", " ", "*", "*", "4", "3", "2", "1">>,
               <<"s", "i", "n", " ", "t", "a", "r", "j", "e", "t", "a">>,
               <<"1", "2", "3", "4", "5", "6", "7", "8">>}

\* a body with one piece, or two on one line
CardTexts ==
    CardPieces \cup {a \o <<" ">> \o b : a \in CardPieces, b \in CardPieces}

\* the amounts written in a body's amount field, and the currency before them
AmountFieldTokens == {<<"1", ".", "2", "3", "4", ",", "5", "6">>,
                      <<"1", ",", "2", "3", "4", ".", "5", "6">>,
                      <<"1", "2", ",", "5", "0">>,
                      <<"1", ".", "5", "0", "0">>,
                      <<"1", "2", "3", "4", ".", "5", "6">>,
                      <<"1", "2", ".", "5">>,
                      <<"7">>,
                      <<"1", ",", "2", "3", "4", ",", "5", "6", "7", ".", "8", "9">>}
AmountFieldCurrencies == {USD, CRC}

\* the body "Monto: <currency> <token>"
AmountField(currency, token) ==
    <<"M", "o", "n", "t", "o", ":", " ">> \o currency \o <<" ">> \o token

\* A body keeps, next to its text, the amount token and the currency it was
\* written from (None in a body without an amount field).
FieldBodies ==
    {[text |-> t, token |-> NoneVal, currency |-> NoneVal] : t \in CardTexts}
    \cup {[text |-> AmountField(cur, tok), token |-> tok, currency |-> cur] :
             cur \in AmountFieldCurrencies, tok \in AmountFieldTokens}

InitExtract == /\ file = <<>>
               /\ \E b \in FieldBodies : last = [op |-> "body", body |-> b]

ExtractCardBAC ==
    /\ last.op = "body"
    /\ last' = [op |-> "extract_card", strategy |-> "BAC", body |-> last.body,
                out |-> BacExtractCard(last.body.text)]
    /\ UNCHANGED file

ExtractCardDavibank ==
    /\ last.op = "body"
    /\ last' = [op |-> "extract_card", strategy |-> "Davibank", body |-> last.body,
                out |-> DavibankExtractCard(last.body.text)]
    /\ UNCHANGED file

ExtractAmountBAC ==
    /\ last.op = "body"
    /\ last' = [op |-> "extract_amount", strategy |-> "BAC", body |-> last.body,
                out |-> BacExtractAmount(last.body.text)]
    /\ UNCHANGED file

ExtractAmountDavibank ==
    /\ last.op = "body"
    /\ last' = [op |-> "extract_amount", strategy |-> "Davibank", body |-> last.body,
                out |-> DavibankExtractAmount(last.body.text)]
    /\ UNCHANGED file

NextExtract ==
    ExtractCardBAC \/ ExtractCardDavibank \/ ExtractAmountBAC \/ ExtractAmountDavibank

SpecExtract == InitExtract /\ [][NextExtract]_vars

\* ================================================================= claims

\* C1: save(t) returns true and appends exactly the one record of t when no
\* persisted record carries t's global_id, and returns false leaving the
\* ledger as it was when one does; either way t's global_id is persisted
\* afterwards, so a second save(t) returns false with the length unchanged.
C1_SaveInsertsIffAbsent ==
    last.op = "save" =>
        LET t == last.txns[1]
            present == \E i \in 1..Len(last.before) :
                           last.before[i].global_id = global_id(t)
        IN /\ ~last.raised
           /\ last.ret <=> ~present
           /\ ~present => file = Append(last.before, _transaction_to_row(t))
           /\ present => file = last.before
           /\ \E i \in 1..Len(file) : file[i].global_id = global_id(t)

\* save(tA) inserted, then save(tA2), which has tA's identity, was rejected
C1_Witness ==
    /\ last.op = "save" /\ last.txns = <<tA2>> /\ ~last.ret
    /\ last.before = <<_transaction_to_row(tA)>>
    /\ file = last.before

\* C2: no two persisted records have the same global_id.
C2_UniqueIds ==
    \A i \in 1..Len(file), j \in 1..Len(file) :
        i # j => file[i].global_id # file[j].global_id

\* C3: save_many(L) leaves the ledger that calling save on each element of L
\* in order leaves, and returns the number of those calls that return true.
C3_SaveManyIsSaveEach ==
    last.op = "save_many" =>
        LET SaveEach[k \in 0..Len(last.txns)] ==
                IF k = 0 THEN [file |-> last.before, count |-> 0]
                ELSE LET r == save(SaveEach[k - 1].file, last.txns[k])
                     IN [file |-> r.file,
                         count |-> SaveEach[k - 1].count
                                   + (IF r.ret THEN 1 ELSE 0)]
        IN /\ file = SaveEach[Len(last.txns)].file
           /\ last.count = SaveEach[Len(last.txns)].count

\* save_many([tA, tA2]) on a ledger without that identity inserted tA only
C3_Witness ==
    /\ last.op = "save_many" /\ last.txns = <<tA, tA2>> /\ last.count = 1
    /\ Len(last.before) = 1
    /\ file = Append(last.before, _transaction_to_row(tA))

\* C4: when a persisted record has identity id, update(id, t) returns true,
\* the record of t stands where the first such record stood, the length is
\* unchanged and every other record is the same at the same position.
C4_UpdateReplacesFirstOnly ==
    (/\ last.op = "update"
     /\ \E i \in 1..Len(last.before) : last.before[i].global_id = last.id) =>
        LET k == CHOOSE i \in 1..Len(last.before) :
                     /\ last.before[i].global_id = last.id
                     /\ \A j \in 1..(i - 1) : last.before[j].global_id # last.id
        IN /\ last.ret /\ ~last.raised
           /\ Len(file) = Len(last.before)
           /\ file[k] = _transaction_to_row(last.txns[1])
           /\ \A j \in 1..Len(file) : j # k => file[j] = last.before[j]

\* an update whose id matched two records of a three-record ledger
C4_Witness ==
    /\ last.op = "update" /\ last.ret /\ Len(last.before) = 3
    /\ \E i \in 1..3, j \in 1..3 :
           /\ i < j
           /\ last.before[i].global_id = last.id
           /\ last.before[j].global_id = last.id
           /\ last.before[i] # last.before[j]
           /\ file[i] # last.before[i]
           /\ file[j] = last.before[j]

\* C5: a delete(id) that returns true removes exactly the first record whose
\* identity is id: one record fewer, the others in their order.
C5_DeleteRemovesOne ==
    (last.op = "delete" /\ last.ret) =>
        /\ Len(file) = Len(last.before) - 1
        /\ \E k \in 1..Len(last.before) :
               /\ last.before[k].global_id = last.id
               /\ \A j \in 1..(k - 1) : last.before[j].global_id # last.id
               /\ file = SubSeq(last.before, 1, k - 1)
                         \o SubSeq(last.before, k + 1, Len(last.before))

\* C6: update(id, t) and delete(id) for an id no persisted record carries
\* return false, raise nothing, do not open the file for writing and leave
\* it as it was.
C6_UnknownIdIsFalse ==
    (/\ last.op \in {"update", "delete"}
     /\ \A i \in 1..Len(last.before) : last.before[i].global_id # last.id) =>
        /\ ~last.ret /\ ~last.raised /\ ~last.wrote
        /\ file = last.before

\* a delete of an unknown id on a ledger of two records
C6_Witness ==
    /\ last.op = "delete" /\ last.id = UnknownId /\ ~last.ret
    /\ Len(last.before) = 2 /\ file = last.before

\* C7 as stated: in every ledger file state, exists(id) is true iff get_all()
\* returns a transaction whose global_id is id.
C7_ExistsIffInGetAll ==
    last.op = "exists" =>
        (last.ret <=>
            LET g == get_all(last.before)
            IN ~g.raised
               /\ \E i \in 1..Len(g.txns) : global_id(g.txns[i]) = last.id)

\* every row parses back into a Transaction and carries in its global_id
\* column the identity of its fields
WellFormed(f) ==
    \A i \in 1..Len(f) :
        LET r == _row_to_transaction(f[i])
        IN r.kind = "txn" /\ f[i].global_id = global_id(r.txn)

\* C7 amended: in every ledger file state in which each row parses back into
\* a Transaction and carries the identity of its fields, exists(id) is true
\* iff get_all() returns a transaction whose global_id is id; there save(t)
\* returns false only when get_all() returns a record of t's identity, and
\* delete(id) returns true when exists(id) is true.
C7_ExistsIffInGetAllWellFormed ==
    /\ WellFormed(file) =>
           \A id \in Ids :
               exists(file, id) <=>
                   LET g == get_all(file)
                   IN ~g.raised
                      /\ \E i \in 1..Len(g.txns) : global_id(g.txns[i]) = id
    /\ (last.op = "save" /\ ~last.ret /\ WellFormed(last.before)) =>
           LET g == get_all(last.before)
           IN \E i \in 1..Len(g.txns) :
                  global_id(g.txns[i]) = global_id(last.txns[1])
    /\ (/\ last.op = "delete" /\ WellFormed(last.before)
        /\ exists(last.before, last.id)) => last.ret

\* a delete that found its id in a well-formed ledger of two records, one of
\* them read from a file the store did not write
C7_Witness ==
    /\ last.op = "delete" /\ last.ret /\ Len(last.before) = 2
    /\ WellFormed(last.before) /\ exists(last.before, last.id)
    /\ \E i \in 1..2 : last.before[i].notes = Note

\* C8: get_all() never fails on a malformed row: it returns, in file order,
\* the rows that parse back into a Transaction and omits the others.
C8_GetAllDropsMalformed ==
    last.op = "get_all" =>
        /\ ~last.raised
        /\ \E keep \in SUBSET (1..Len(last.before)) :
               /\ \A i \in 1..Len(last.before) :
                      i \in keep <=>
                          (\A c \in {"timestamp", "merchant", "amount",
                                     "currency", "institution",
                                     "payment_instrument", "notes"} :
                               last.before[i][c] # NoneVal)
                          /\ fromisoformat(last.before[i].timestamp).ok
                          /\ ParseFloat(last.before[i].amount).ok
               /\ Len(last.out) = Cardinality(keep)
               /\ \A i \in keep :
                      _transaction_to_row(
                          last.out[Cardinality({j \in keep : j <= i})])
                      = [last.before[i] EXCEPT
                             !.global_id = global_id(
                                 last.out[Cardinality({j \in keep : j <= i})])]

\* C9: a transaction saved with category c is returned by get_all() with
\* category c.
C9_CategoryRoundTrips ==
    (last.op = "save" /\ last.ret) =>
        LET g == get_all(file)
        IN /\ ~g.raised
           /\ Len(g.txns) = Len(file)
           /\ g.txns[Len(file)].category = last.txns[1].category

\* C10: two transactions that agree on timestamp, merchant, amount, currency,
\* institution and payment_instrument have the same global_id, whatever their
\* notes and category.
C10_IdOfSixFieldsOnly ==
    last.op = "global_id" =>
        (SixFields(last.txns[1]) = SixFields(last.txns[2])
            => last.out[1] = last.out[2])

\* the identities of two transactions that differ in notes and category only
C10_Witness ==
    /\ last.op = "global_id"
    /\ SixFields(last.txns[1]) = SixFields(last.txns[2])
    /\ last.txns[1].notes # last.txns[2].notes
    /\ last.txns[1].category # last.txns[2].category
    /\ last.out[1] = last.out[2]

\* C11 as stated: two transactions that differ in at least one of the six
\* fields have different global_ids.
C11_DifferentFieldsDifferentId ==
    last.op = "global_id" =>
        (SixFields(last.txns[1]) # SixFields(last.txns[2])
            => last.out[1] # last.out[2])

\* C20: the separator the claim makes the decimal one in a token stripped to
\* digits, '.' and ',': the last one when both occur, ',' when it occurs
\* alone before a trailing group of exactly 2 digits, '.' otherwise.
C20_DecimalSeparator(kept) ==
    LET seps == {i \in 1..Len(kept) : kept[i] \in {".", ","}}
        last_sep == CHOOSE i \in seps : \A j \in seps : j <= i
    IN IF HasChar(kept, ",") /\ HasChar(kept, ".") THEN kept[last_sep]
       ELSE IF HasChar(kept, ",") /\ Len(kept) - last_sep = 2 THEN ","
       ELSE "."

\* the token with the other separator removed and the decimal one written '.'
C20_Canonical(token) ==
    LET kept == SelectSeq(token, LAMBDA c : c \in DigitSet \cup {".", ","})
        dec == C20_DecimalSeparator(kept)
        digits == SelectSeq(kept, LAMBDA c : c \in DigitSet \cup {dec})
    IN [i \in 1..Len(digits) |-> IF digits[i] = dec THEN "." ELSE digits[i]]

\* amount (in hundredths) is the decimal value of the text rounded to 2 places
C20_IsRounded(text, amount) ==
    LET h == Hundredths(text)
        b == BeyondHundredths(text)
    IN /\ b = "below" => amount = h
       /\ b = "above" => amount = h + 1
       /\ b = "half" => amount \in {h, h + 1}

\* C20: each strategy's amount parser gives the decimal value of the token,
\* read with the claim's separator rule and rounded to 2 places, zero for a
\* token that does not parse; "1,234.56" and "1.234,56" give 1234.56, "12,34"
\* gives 12.34 and "CRC 1,500" gives 1500 with currency CRC.
C20_AmountParser ==
    last.op = "parse_amount" =>
        LET text == C20_Canonical(last.token)
        IN /\ FloatSyntaxOk(text) => C20_IsRounded(text, last.amount)
           /\ ~FloatSyntaxOk(text) => last.amount = 0
           /\ last.token \in {<<"1", ",", "2", "3", "4", ".", "5", "6">>,
                              <<"1", ".", "2", "3", "4", ",", "5", "6">>} => last.amount = 123456
           /\ last.token = <<"1", "2", ",", "3", "4">> => last.amount = 1234
           /\ last.token = <<"C", "R", "C", " ", "1", ",", "5", "0", "0">> =>
                  /\ last.amount = 150000
                  /\ last.strategy = "BAC" => last.currency = CRC

C20_Witness ==
    /\ last.op = "parse_amount"
    /\ last.strategy = "Davibank"
    /\ last.token = <<"1", ".", "2", "3", "4", ",", "5", "6">>
    /\ last.amount = 123456

\* The bodies in which a strategy's labeled patterns find a date: BAC reads
\* the forms after "Fecha:", Davibank its sentence, a numeric date after
\* "Fecha" and a date with a time standing alone.
PatternMatches(strategy, body) ==
    \/ strategy = "BAC" /\ body.kind \in {"spanish", "numeric"}
    \/ strategy = "Davibank" /\ body.kind \in {"dia", "numeric", "bare"}

\* C17: for a body with no recognizable date the timestamp extractor of each
\* strategy returns the Message's date at 00:00:00.
C17_NoDateGivesMessageDate ==
    (last.op = "extract_timestamp" /\ ~PatternMatches(last.strategy, last.body))
        => last.out = <<last.date[1], last.date[2], last.date[3], 0, 0, 0>>

C17_Witness ==
    /\ last.op = "extract_timestamp"
    /\ last.strategy = "BAC"
    /\ last.body.kind = "none"
    /\ last.out = <<2024, 2, 29, 0, 0, 0>>
    /\ last.now # last.out

\* the date or time written in the body cannot be converted: day or month out
\* of range, hour above 23, month abbreviation outside the 12-entry table
C18_Unconvertible(body) ==
    \/ body.h > 23
    \/ body.kind = "spanish" /\ body.d \notin 1..31
    \/ body.kind = "spanish" /\ \A k \in 1..12 : months[k] # SubSeq(Lower(body.word), 1, 3)
    \/ body.kind # "spanish" /\ body.mo \notin 1..12
    \/ body.kind # "spanish" /\ body.mo \in 1..12
           /\ body.d \notin 1..DaysInMonth(body.y, body.mo)

\* C18 as stated: when a date pattern matches but its text cannot be
\* converted, the extractor's result is the Message's date.
C18_UnconvertibleGivesMessageDate ==
    (/\ last.op = "extract_timestamp"
     /\ PatternMatches(last.strategy, last.body)
     /\ C18_Unconvertible(last.body))
        => /\ last.out[1] = last.date[1]
           /\ last.out[2] = last.date[2]
           /\ last.out[3] = last.date[3]

C15_FailureUnlessAllThree ==
    (last.op = "parse" /\ last.result.kind # "raised")
        => /\ (~last.msg.merchant \/ ~last.msg.card \/ ~last.msg.amount)
                  => last.result.kind = "None"
           /\ last.result.kind = "txn"
                  => (last.msg.merchant /\ last.msg.card /\ last.msg.amount)

\* C16 as stated: parse of every strategy never propagates an exception.
C16_ParseNeverRaises ==
    last.op = "parse" => last.result.kind # "raised"

\* the places in the list of the strategies whose can_parse holds of email
C13_Matching(strategies, email) ==
    {k \in 1..Len(strategies) : can_parse(strategies[k], email)}

\* C13: get_strategy returns the strategy earliest in registration order
\* whose can_parse is true, and none when no strategy's can_parse is true,
\* also after strategies were appended with register_strategy.
C13_FirstRegisteredMatch ==
    last.op = "get_strategy" =>
        LET matching == C13_Matching(last.strategies, last.email)
        IN IF matching = {} THEN last.out = NoStrategy
           ELSE /\ last.out.index \in matching
                /\ \A k \in matching : last.out.index <= k
                /\ last.out.strategy = last.strategies[last.out.index]

C13_Witness ==
    /\ last.op = "get_strategy"
    /\ last.strategies = <<"BAC", "Davibank", "Davivienda", "BAC">>
    /\ C13_Matching(last.strategies, last.email) = {1, 2, 3, 4}
    /\ last.out = [index |-> 1, strategy |-> "BAC"]

\* what the run recorded in l held before its k-th message
C14_Before(l, k) ==
    IF k = 1 THEN [file |-> l.before, processed |-> 0, errors |-> 0]
    ELSE [file |-> l.trace[k - 1].file, processed |-> l.trace[k - 1].processed,
          errors |-> l.trace[k - 1].errors]

\* C14: in sync and backfill, a message that no registered strategy claims
\* has the outcome "no strategy": the ledger is as it was before the message,
\* neither processed nor errors is incremented, and no save is attempted.
C14_UnmatchedLeavesLedger ==
    \A k \in 1..Len(last.trace) :
        C13_Matching(_strategies, last.emails[k]) = {} =>
            /\ last.trace[k].outcome = "no_strategy"
            /\ ~last.trace[k].saved
            /\ last.trace[k].file = C14_Before(last, k).file
            /\ last.trace[k].processed = C14_Before(last, k).processed
            /\ last.trace[k].errors = C14_Before(last, k).errors

\* a backfill over a non-empty ledger met a message no strategy claims and
\* then saved the next one
C14_Witness ==
    /\ last.op = "backfill"
    /\ last.before # <<>>
    /\ Len(last.trace) = 2
    /\ C13_Matching(_strategies, last.emails[1]) = {}
    /\ last.trace[1].outcome = "no_strategy"
    /\ last.trace[2].outcome = "processed"
    /\ last.out = <<1, 0, 1>>

\* C12: a message that was ingested once (selected, parsed, saved) and is
\* ingested again at any later moment gives a transaction with the same
\* global_id, so the second save returns false and the ledger is unchanged.
C12_ReingestionIsNoOp ==
    [][\A i \in 1..Len(last.trace) : \A j \in 1..Len(last'.trace) :
          (/\ last'.emails[j] = last.emails[i]
           /\ last.trace[i].outcome \in {"processed", "duplicate"})
          => /\ last'.trace[j].outcome = "duplicate"
             /\ last'.trace[j].id = last.trace[i].id
             /\ last'.trace[j].file = C14_Before(last', j).file]_vars

\* the counters the run recorded in l held before its k-th message
C27_Before(l, k) ==
    IF k = 1 THEN [processed |-> 0, errors |-> 0, skipped |-> 0]
    ELSE [processed |-> l.trace[k - 1].processed, errors |-> l.trace[k - 1].errors,
          skipped |-> l.trace[k - 1].skipped]

\* what the k-th message of the run added to each counter
C27_Added(l, k) ==
    [processed |-> l.trace[k].processed - C27_Before(l, k).processed,
     errors |-> l.trace[k].errors - C27_Before(l, k).errors,
     skipped |-> l.trace[k].skipped - C27_Before(l, k).skipped]

\* the k-th message of the run: a strategy matched, parse gave a Transaction
C27_Matched(l, k) == C13_Matching(_strategies, l.emails[k]) # {}
C27_Parse(l, k) == Transactions[l.emails[k]][l.nows[k]]

\* the counters of the k-th message as the claim tells them
C27_Counted(l, k) ==
    /\ C27_Added(l, k).processed + C27_Added(l, k).errors + C27_Added(l, k).skipped = 1
    /\ C27_Added(l, k).processed \in {0, 1}
    /\ C27_Added(l, k).errors \in {0, 1}
    /\ C27_Added(l, k).skipped \in {0, 1}
    /\ C27_Added(l, k).processed = 1 <=>
           (C27_Matched(l, k) /\ C27_Parse(l, k).kind = "txn"
            /\ l.trace[k].outcome = "processed")
    /\ C27_Added(l, k).errors = 1 <=>
           (C27_Matched(l, k) /\ C27_Parse(l, k).kind = "None")
    /\ C27_Added(l, k).skipped = 1 <=>
           (~C27_Matched(l, k) \/ l.trace[k].outcome = "duplicate")

\* C27: in sync and backfill every fetched message increments exactly one of
\* processed, skipped, errors (processed iff matched, parsed and saved; errors
\* iff matched and parse failed; skipped iff unmatched or duplicate), every
\* fetched message is handled, and on normal completion the counters sum to
\* the number of messages and the ledger has grown by processed records.
C27_ExactlyOneCounter ==
    last.op \in {"sync", "backfill"} =>
        /\ Len(last.trace) = Len(last.emails)
        /\ \A k \in 1..Len(last.trace) : C27_Counted(last, k)
        /\ ~last.raised =>
               /\ last.out[1] + last.out[2] + last.out[3] = Len(last.emails)
               /\ Len(file) = Len(last.before) + last.out[1]

\* does the call set_category(m, c) take effect, and under which key
C24_Effective(call) == Strip(call[1]) # <<>> /\ Strip(call[2]) # <<>>
C24_Key(merchant) == Strip(Lower(merchant))

\* the calls so far that set the category of merchant
C24_Setting(calls, merchant) ==
    {i \in 1..Len(calls) :
        C24_Effective(calls[i]) /\ C24_Key(calls[i][1]) = C24_Key(merchant)}

\* C24: get_category(m) returns the trimmed category of the most recent
\* set_category(m', c) with trim(lower(m')) = trim(lower(m)) and m', c not
\* blank, or None without such a call; a set_category with a blank merchant
\* or a blank category changes neither the mappings nor the file.
C24_LastWriteWins ==
    /\ last.op = "get_category" =>
           last.out =
               IF C24_Setting(last.calls, last.merchant) = {} THEN NoneVal
               ELSE Strip(last.calls[CHOOSE i \in C24_Setting(last.calls, last.merchant) :
                              \A j \in C24_Setting(last.calls, last.merchant) : j <= i][2])
    /\ (last.op = "set_category" /\ ~C24_Effective(<<last.merchant, last.category>>)) =>
           /\ DictItems(last.cache) = DictItems(last.before.cache)
           /\ file = last.before.file

\* " shop " is looked up after "Shop" was set twice, the second time to
\* " Fun "
C24_Witness ==
    /\ last.op = "get_category"
    /\ last.merchant = <<" ", "s", "h", "o", "p", " ">>
    /\ last.calls = << <<<<"S", "h", "o", "p">>, <<"F", "o", "o", "d">>>>, <<<<"S", "h", "o", "p">>, <<" ", "F", "u", "n", " ">>>> >>
    /\ last.out = <<"F", "u", "n">>

\* C25: after every effective set_category the mappings file holds exactly
\* the repository's mappings, one row per key, sorted by key, and a new
\* CategoryRepository on the same path has the same get_all_mappings().
C25_PersistsAcrossReload ==
    /\ (last.op = "set_category" /\ C24_Effective(<<last.merchant, last.category>>)) =>
           /\ {<<file[i].merchant, file[i].category>> : i \in 1..Len(file)}
                  = DictItems(last.cache)
           /\ Len(file) = Cardinality(DictKeys(last.cache))
           /\ \A i \in 1..(Len(file) - 1) : StrLess(file[i].merchant, file[i + 1].merchant)
           /\ DictItems(get_all_mappings(CategoryRepository_load_cache(file, <<>>)))
                  = DictItems(get_all_mappings(last.cache))
    /\ last.op = "__init__" =>
           DictItems(get_all_mappings(last.cache))
               = DictItems(get_all_mappings(last.before.cache))

\* a repository is opened on a file that holds two mappings, written in the
\* order shop, cafe
C25_Witness ==
    /\ last.op = "__init__"
    /\ Len(file) = 2
    /\ last.before.cache[1][1] = <<"s", "h", "o", "p">>
    /\ file[1].merchant = <<"c", "a", "f", "e">>
    /\ DictItems(last.cache) = DictItems(last.before.cache)

\* the rows of f other than the rows of id
C28_OtherRows(f, id) == {f[i] : i \in {j \in 1..Len(f) : f[j].global_id # id}}

\* C28: a successful update(id, t) or delete(id) changes only the targeted
\* row of the file: every other row, the rows that get_all() drops included,
\* is still in the file, and the ids for which exists() holds change only by
\* the removal of id (and, for update, the addition of t's global_id).
C28_OnlyTargetedRowChanges ==
    (last.op \in {"delete", "update"} /\ last.ret) =>
        /\ C28_OtherRows(last.before, last.id) \subseteq {file[i] : i \in 1..Len(file)}
        /\ _get_existing_ids(last.before) \ {last.id} \subseteq _get_existing_ids(file)
        /\ _get_existing_ids(file) \subseteq
               (_get_existing_ids(last.before) \ {last.id})
               \cup (IF last.op = "update" THEN {global_id(last.txns[1])} ELSE {})

\* terminada\s+en\s+(\d{4})   and   ending\s+in\s+(\d{4})
C22_LabeledRes ==
    <<Cat(<<Lit(<<"t", "e", "r", "m", "i", "n", "a", "d", "a">>), Ws1, Lit(<<"e", "n">>), Ws1, Grp(1, Rep(D, 4, 4))>>),
      Cat(<<Lit(<<"e", "n", "d", "i", "n", "g">>), Ws1, Lit(<<"i", "n">>), Ws1, Grp(1, Rep(D, 4, 4))>>)>>

\* the suffix the claim tells: after asterisks, else after X/x, else labeled
C22_Expected(text) ==
    The({IF m.found THEN m.groups[1] ELSE <<>> :
            m \in {FirstFound(<<StarsCardRe, XsCardRe>> \o C22_LabeledRes, 1, text, 1)}})

\* C22: the card extractor of each registered strategy returns the 4 digits
\* after a run of 4 or more asterisks, else those after a run of 4 or more
\* X/x, else those of "terminada en NNNN" / "ending in NNNN", the first of
\* these that matches, and the empty string when none matches.
C22_CardSuffix ==
    last.op = "extract_card" => last.out = C22_Expected(last.body.text)

\* C29: the amount located in a body is handed to the amount parser as the
\* complete numeric token with all its '.' and ',' separators, for each
\* registered strategy: "Monto: USD 1.234,56" yields 1234.56, as
\* "Monto: USD 1,234.56" does.
C29_WholeTokenParsed ==
    (last.op = "extract_amount" /\ last.body.token # NoneVal) =>
        /\ last.out[1] =
               IF last.strategy = "BAC"
               THEN _parse_amount_string(last.body.currency \o <<" ">> \o last.body.token)[1]
               ELSE _parse_amount(last.body.token)
        /\ last.body.token \in {<<"1", ".", "2", "3", "4", ",", "5", "6">>, <<"1", ",", "2", "3", "4", ".", "5", "6">>} => last.out[1] = 123456

\* the message with its html_body replaced by the visible text, as text_body
C23_AsText(email) ==
    EmailMessage(email.sender, email.subject, email.date, <<>>,
                 get_text(email.html_body).text)

\* parse of the strategy the run was made with
C23_Parse(strategy, email, now, fault) ==
    IF strategy = "BAC" THEN BacParse(email, now, fault)
    ELSE DavibankParse(email, now, fault)

\* C23: each strategy's parse takes its text from the body that is
\* populated: with html_body alone the extractors run on the visible text
\* derived from the HTML, with text_body alone on text_body, and with both
\* empty parse returns failure.
C23_TextSelection ==
    last.op = "parse" =>
        /\ (/\ last.msg.email.html_body # <<>>
            /\ last.msg.email.text_body = <<>>
            /\ ~get_text(last.msg.email.html_body).raised) =>
               last.result = C23_Parse(last.strategy, C23_AsText(last.msg.email),
                                       last.now, last.fault)
        /\ (last.msg.email.html_body = <<>> /\ last.msg.email.text_body = <<>>) =>
               last.result = ParsedNone

\* C21: for the same amount text every strategy of the code base (BAC,
\* Davibank, Davivienda) gives the same Transaction.amount, in decimal
\* currency units.
C21_OneAmountRepresentation ==
    last.op = "parse_amount" =>
        /\ last.amount = _parse_amount_string(last.token)[1]
        /\ last.amount = _parse_amount(last.token)
        /\ last.amount = Davivienda_parse_amount(last.token)

\* the sum of the values of a dict of counts
RECURSIVE C30_Total(_, _)
C30_Total(counts, keys) ==
    IF keys = {} THEN 0
    ELSE LET k == CHOOSE x \in keys : TRUE
         IN counts[k] + C30_Total(counts, keys \ {k})

\* C30: the summary agrees with get_all(): total_transactions is the number
\* of records, the by_institution counts and the by_currency counts each sum
\* to it, and total_amount_by_currency[c] is the sum of the amounts (in
\* currency units) of the records of currency c.
C30_SummaryConsistent ==
    (last.op = "get_summary" /\ ~last.raised) =>
        /\ last.out.total_transactions = Len(get_all(file).txns)
        /\ C30_Total(last.out.by_institution, DOMAIN last.out.by_institution)
               = last.out.total_transactions
        /\ C30_Total(last.out.by_currency, DOMAIN last.out.by_currency)
               = last.out.total_transactions
        /\ \A cur \in DOMAIN last.out.total_amount_by_currency :
               last.out.total_amount_by_currency[cur].ten_thousandths
                   = 100 * AmountSum(get_all(file).txns, 1, cur)

\* the place of an access among the accesses made so far (0: not made)
C26_At(step) ==
    IF \E i \in 1..Len(last.steps) : last.steps[i] = step
    THEN CHOOSE i \in 1..Len(last.steps) : last.steps[i] = step
    ELSE 0

\* both calls have finished, save(b) returned True, and the other call was
\* aimed at another transaction than b
C26_BothFinished ==
    /\ last.op = "race" /\ last.save = "done" /\ last.writer = "done"
    /\ last.save_ret
    /\ last.id # global_id(last.b)
    /\ \A i \in 1..Len(last.txns) : global_id(last.txns[i]) # global_id(last.b)

\* C26: nothing serialises save(b) with a concurrent delete(a) or
\* update(a, a'): save(b) returns True and b is missing from the ledger
\* after both calls, and this happens exactly in the interleavings where
\* the other call read the ledger before b was appended and rewrote it
\* afterwards.
C26_SaveLostInRace ==
    C26_BothFinished =>
        (~exists(file, global_id(last.b))
            <=> /\ C26_At("_write_all") > C26_At("append")
                /\ C26_At("get_all") < C26_At("append"))

\* save(b) returned True, delete(a) returned True, b is not in the ledger
C26_Witness ==
    /\ C26_BothFinished
    /\ last.txns = <<>> /\ last.writer_ret
    /\ ~exists(file, global_id(last.b))
    /\ get_all(file).txns = <<>>

====
